---- MODULE Spec2Model ----
(***************************************************************************)
(* Model of the GitHub MCP server: the tools/call dispatcher (index.ts),   *)
(* the git operation handlers (github.ts) and the CLI wrapper              *)
(* (mcp-cli.js).  The git binary and the shell are the environment: a      *)
(* subprocess either behaves as git does on the modelled repository or     *)
(* fails with one of a set of stderr classes chosen by the environment.    *)
(***************************************************************************)
EXTENDS Integers, Sequences, FiniteSets, TLC

VARIABLES
  repo,      \* the working directory on disk (owned by git, not by the server)
  pc,        \* "idle" | "responded" (a response is on the transport) | "exited" (CLI)
  request,   \* the request last received: [name, args]
  run,       \* what the handler did for it: subprocesses started, outcome, failed step
  response,  \* the tools/call response put on the transport
  exitCode,  \* exit code of the CLI process (-1 while no CLI invocation ended)
  alias,     \* the alias executable last run: its name, words and client runs
  tree,      \* the repository the workflow scripts run git in: branches, stashes
  job        \* the workflow script last run: its words and the subprocesses it started

vars == <<repo, pc, request, run, response, exitCode, alias, tree, job>>

\* ---------------------------------------------------------------- bounds
NumFiles == 2
MaxCommits == 2

\* ------------------------------------------------------ strings as data
\* A string the code inspects character by character (a commit message, a
\* shell command argument) is a sequence of characters.
\* Characters are named: SP a space, DQ a double quote, BS a backslash,
\* DOLLAR a dollar sign, TICK a backtick, SEMI a semicolon; any other name
\* ("a", "main", "HEAD~1") is a run of characters the shell takes literally.
SP == "sp"
DQ == "dq"
BS == "bs"
DOLLAR == "dollar"
TICK == "tick"
SEMI == "semi"
Chars == {"a", SP, DQ, BS, DOLLAR, TICK, SEMI}

NoValue == <<"undefined">>     \* an argument the caller did not supply

MsgEmpty  == <<>>
MsgBlank  == <<SP>>
MsgPlain  == <<"a">>
MsgQuote  == <<"a", DQ>>
MsgDollar == <<DOLLAR, "a">>
MsgTick   == <<TICK>>
MsgBsEnd  == <<"a", BS>>
MsgBsBs   == <<BS, BS>>

\* String.prototype.trim on the modelled alphabet: only SP is whitespace.
RECURSIVE TrimLeft(_)
TrimLeft(s) == IF s # <<>> /\ Head(s) = SP THEN TrimLeft(Tail(s)) ELSE s

RECURSIVE TrimRight(_)
TrimRight(s) ==
  IF s # <<>> /\ s[Len(s)] = SP THEN TrimRight(SubSeq(s, 1, Len(s) - 1)) ELSE s

Trim(s) == TrimRight(TrimLeft(s))

\* A presence test that lets the empty string through.
TruthyWhenDefined(s) == s # NoValue

\* JavaScript truthiness of a string argument: undefined and "" are falsy.
Truthy(s) == s # NoValue /\ s # <<>>

\* The three chained message.replace calls: a backslash is put before every
\* double quote, backtick and dollar sign; nothing else is changed.
RECURSIVE EscapeMessage(_)
EscapeMessage(s) ==
  IF s = <<>> THEN <<>>
  ELSE IF Head(s) \in {DQ, TICK, DOLLAR}
       THEN <<BS, Head(s)>> \o EscapeMessage(Tail(s))
       ELSE <<Head(s)>> \o EscapeMessage(Tail(s))

\* What /bin/sh makes of the text that follows an opening double quote:
\* backslash escapes only the double quote, dollar, backtick and backslash;
\* an unescaped double quote closes the quoted text (rest is what follows
\* it); an unescaped dollar or backtick starts an expansion; end of input
\* inside the quotes is a syntax error.
RECURSIVE ShellDoubleQuoted(_, _)
ShellDoubleQuoted(s, acc) ==
  IF s = <<>> THEN [status |-> "syntax", arg |-> acc, rest |-> <<>>]
  ELSE IF Head(s) = DQ THEN [status |-> "ok", arg |-> acc, rest |-> Tail(s)]
  ELSE IF Head(s) \in {DOLLAR, TICK}
       THEN [status |-> "expansion", arg |-> acc, rest |-> Tail(s)]
  ELSE IF Head(s) = BS
       THEN IF Tail(s) = <<>> THEN [status |-> "syntax", arg |-> acc, rest |-> <<>>]
            ELSE IF s[2] \in {DQ, DOLLAR, TICK, BS}
                 THEN ShellDoubleQuoted(Tail(Tail(s)), Append(acc, s[2]))
                 ELSE ShellDoubleQuoted(Tail(s), Append(acc, BS))
  ELSE ShellDoubleQuoted(Tail(s), Append(acc, Head(s)))

\* The words /bin/sh makes of the text that follows the fixed part of a
\* command line.  status "ok": one command, these words; "syntax": the shell
\* refuses the line; "expansion": the shell substitutes a variable or a
\* command's output into the line; "second": a semicolon ends the git
\* command and the text after it is run as another command.
EndWord(words, cur, inword) == IF inword THEN Append(words, cur) ELSE words

RECURSIVE ShellScan(_, _, _, _)
RECURSIVE ShellAfterQuote(_, _, _)
ShellAfterQuote(q, words, cur) ==
  IF q.status # "ok"
  THEN [status |-> q.status, words |-> Append(words, cur \o q.arg)]
  ELSE ShellScan(q.rest, words, cur \o q.arg, TRUE)

ShellScan(s, words, cur, inword) ==
  IF s = <<>> THEN [status |-> "ok", words |-> EndWord(words, cur, inword)]
  ELSE IF Head(s) = SP
       THEN ShellScan(Tail(s), EndWord(words, cur, inword), <<>>, FALSE)
  ELSE IF Head(s) = SEMI
       THEN [status |-> "second", words |-> EndWord(words, cur, inword)]
  ELSE IF Head(s) \in {DOLLAR, TICK}
       THEN [status |-> "expansion", words |-> EndWord(words, cur, inword)]
  ELSE IF Head(s) = BS
       THEN IF Tail(s) = <<>> THEN ShellScan(<<>>, words, Append(cur, BS), TRUE)
            ELSE ShellScan(Tail(Tail(s)), words, Append(cur, s[2]), TRUE)
  ELSE IF Head(s) = DQ
       THEN ShellAfterQuote(ShellDoubleQuoted(Tail(s), <<>>), words, cur)
  ELSE ShellScan(Tail(s), words, Append(cur, Head(s)), TRUE)

ShellWords(s) == ShellScan(s, <<>>, <<>>, FALSE)

\* "${value}": the value between double quotes, nothing escaped.
Quoted(v) == <<DQ>> \o v \o <<DQ>>

\* The words the shell passes to git for: git commit -m "${escapedMessage}"
CommitArg(message) == ShellWords(Quoted(EscapeMessage(message)))


\* ---------------------------------------------------------- texts
\* A text (result text, stdout, error message) is a sequence of parts.
\* k = "lit": a literal of the source; "file": the n-th line of a file list;
\* "num": the number n in decimal; "str": a caller-supplied string m;
\* "stderr": the stderr of a failed subprocess, of class s; "cmd": the
\* command line s inside exec's "Command failed: ..." message;
\* "entry": one line of git log --oneline whose subject is m.
Lit(s)     == [k |-> "lit",    s |-> s,  n |-> 0, m |-> <<>>]
FileLine(i) == [k |-> "file",  s |-> "", n |-> i, m |-> <<>>]
Num(n)     == [k |-> "num",    s |-> "", n |-> n, m |-> <<>>]
Str(m)     == [k |-> "str",    s |-> "", n |-> 0, m |-> m]
StderrOf(e) == [k |-> "stderr", s |-> e, n |-> 0, m |-> <<>>]
CmdLine(c) == [k |-> "cmd",    s |-> c,  n |-> 0, m |-> <<>>]
Entry(m)   == [k |-> "entry",  s |-> "", n |-> 0, m |-> m]

\* Classes of failure of a git subprocess.  All but the last two are
\* classes of the stderr git leaves when it exits with a status of its own,
\* each standing for a real git message; "empty" is an empty stderr.
\* "CONFLICT" is a stderr holding that word; "stopped" is git stopping on a
\* conflict the way git reports it: the CONFLICT notice and the list of
\* files go to stdout, stderr is empty (merge) or holds "could not apply"
\* (rebase, cherry-pick).
\* "killed": the timeout of exec expired and the subprocess was killed.
\* "ETIMEDOUT": the system call that starts the subprocess timed out.
ErrClasses ==
  {"empty", "notrepo", "nothing", "mergeconflict", "auth", "remoterejected",
   "rejected", "credential", "permission", "hostname", "upstream", "CONFLICT",
   "uptodate", "other", "stopped", "killed", "ETIMEDOUT"}

\* error.code of the error exec rejects with: the exit status of the
\* subprocess, null when a signal ended it (as the timeout's kill does), the
\* name of the system error when the subprocess could not be started.
ErrorCode(e) ==
  IF e = "killed" THEN "null" ELSE IF e = "ETIMEDOUT" THEN "ETIMEDOUT" ELSE "status"

\* The substrings the code searches for that a stderr class contains.
StderrNeedles(e) ==
  CASE e = "notrepo"        -> {"not a git repository"}
    [] e = "nothing"        -> {"nothing to commit"}
    [] e = "mergeconflict"  -> {"merge conflict"}
    [] e = "auth"           -> {"Authentication failed"}
    [] e = "remoterejected" -> {"remote rejected", "rejected"}
    [] e = "rejected"       -> {"rejected"}
    [] e = "credential"     -> {"credential"}
    [] e = "permission"     -> {"Permission denied"}
    [] e = "hostname"       -> {"Could not resolve hostname"}
    [] e = "upstream"       -> {"upstream"}
    [] e = "CONFLICT"       -> {"CONFLICT"}
    [] e = "uptodate"       -> {"Everything up-to-date"}
    [] OTHER                -> {}

\* Literals of github.ts and index.ts; emoji are left out, a line break is
\* written as a blank and a double quote inside a literal as a single quote.
T_NotRepoInit   == "Error: Not a git repository. Run 'git init' to initialize."
T_NotRepoThrow  == "Not a git repository"
T_NotRepoRemote == "Current directory is not a Git repository"
T_ClsNotRepo    == "Not a git repository. Run 'git init' to initialize or navigate to a git repository."
T_ClsNothing    == "Nothing to commit. All changes are already staged or there are no changes."
T_ClsConflict   == "Merge conflict detected. Resolve conflicts manually before proceeding."
T_ClsAuth       == "Git authentication failed. Please check your credentials and remote access."
T_ClsRejected   == "Push rejected by remote. Pull latest changes first or check branch permissions."
T_ClsCredential == "Git credential error. Please configure your Git credentials or check your access tokens."
T_ClsPermission == "Permission denied. Check your SSH keys or repository access permissions."
T_ClsHostname   == "Network error: Could not resolve hostname. Check your internet connection."
T_ClsTimeout    == "Git command timed out. Try with smaller scope or check network connectivity."
T_CmdFailed     == "Command failed: "
T_ErrorPrefix   == "Error: "
T_ResetHelp     == "greset - Git Reset Command ... --hard Reset HEAD, index, and working tree (DESTRUCTIVE!) ... WARNING: --hard mode will destroy uncommitted changes!"

\* The searched-for substrings a literal contains.
LitNeedles(s) ==
  CASE s = T_NotRepoInit   -> {"Not a git repository"}
    [] s = T_NotRepoThrow  -> {"Not a git repository"}
    [] s = T_NotRepoRemote -> {"not a Git repository"}
    [] s = T_ClsNotRepo    -> {"Not a git repository"}
    [] s = T_ClsAuth       -> {"authentication failed", "authentication", "credential", "credentials"}
    [] s = T_ClsRejected   -> {"rejected"}
    [] s = T_ClsCredential -> {"credential", "credentials"}
    [] s = T_ClsPermission -> {"Permission denied"}
    [] s = T_ClsHostname   -> {"Could not resolve hostname"}
    [] s = T_ResetHelp     -> {"DESTRUCTIVE", "WARNING"}
    [] OTHER               -> {}

Needles(part) ==
  CASE part.k = "lit"    -> LitNeedles(part.s)
    [] part.k = "stderr" -> StderrNeedles(part.s)
    [] OTHER             -> {}

\* String.prototype.includes
Includes(text, needle) == \E i \in 1..Len(text) : needle \in Needles(text[i])

HasLit(text, s) == \E i \in 1..Len(text) : text[i] = Lit(s)


\* ------------------------------------------------- the repository on disk
\* isRepo: the directory is inside a git work tree.  Files are
\* interchangeable, so the work tree is three counts: unstaged, the files
\* whose only change is in the work tree (untracked or modified); staged, the
\* files whose only change is in the index; both, the files changed in the
\* index and again in the work tree.  commits: subjects of the commits on the
\* current branch, oldest first; pushed: how many of them the upstream has;
\* hasOrigin: a remote named origin (with an upstream branch) is set.
\* path: the name by which the request being served reaches the directory,
\* process.cwd() of the server when no request names it otherwise.
ProcessCwd == <<"cwd">>
GivenDir   == <<"dir">>
ClientCwd  == <<"clientcwd">>

EmptyDir ==
  [isRepo |-> FALSE, unstaged |-> 0, staged |-> 0, both |-> 0,
   commits |-> <<>>, pushed |-> 0, hasOrigin |-> FALSE, path |-> ProcessCwd]

\* Lines of git status --porcelain, and of git diff --cached.
StatusCount(r) == r.unstaged + r.staged + r.both
StagedCount(r) == r.staged + r.both

\* DEFAULT_TIMEOUT, VALIDATION_TIMEOUT and the push timeout, in seconds.
DEFAULT_TIMEOUT == 30
VALIDATION_TIMEOUT == 5
PUSH_TIMEOUT == 60

\* A subprocess: command c, its caller-supplied argument text arg (for
\* commit: the text that follows the opening double quote), a number n
\* (log: the count), the timeout, whether the caller awaits it, and the
\* directory it runs in.
Command(c, arg, n, timeout, awaited, cwd) ==
  [c |-> c, arg |-> arg, n |-> n, timeout |-> timeout, awaited |-> awaited,
   cwd |-> cwd]

\* cwd: cwd || process.cwd()
Cwd(dir) == IF Truthy(dir) THEN dir ELSE ProcessCwd

FileLines(k) == [i \in 1..k |-> FileLine(i)]

\* git log prints the newest commit first, at most n entries.
LogEntries(commits, n) ==
  LET k == IF n < Len(commits) THEN n ELSE Len(commits)
  IN [i \in 1..k |-> Entry(commits[Len(commits) + 1 - i])]

GitOk(out, r)   == [ok |-> TRUE,  out |-> out,  err |-> "empty", repo |-> r]
GitFail(e, r)   == [ok |-> FALSE, out |-> <<>>, err |-> e,       repo |-> r]

\* git commit -m <words>: git commits the index under the one word it is
\* given as message; more words are pathspecs no file matches.  With
\* nothing staged git prints its "nothing to commit" report on stdout and
\* exits 1 with an empty stderr; an empty message aborts the commit.
GitCommits(words, r) ==
  IF Len(words) # 1 THEN GitFail("other", r)
  ELSE IF StagedCount(r) = 0 THEN GitFail("empty", r)
  ELSE IF words[1] = <<>> THEN GitFail("other", r)
  ELSE GitOk(<<Lit("[branch hash] "), Str(words[1])>>,
             [r EXCEPT !.commits = Append(@, words[1]), !.staged = 0,
                       !.unstaged = r.unstaged + r.both, !.both = 0])

\* git reset <words>, the words being --<mode> and <target>.  A mode git
\* does not know is a usage error; HEAD~1 needs a parent commit.
ResetModes == {"soft", "mixed", "hard"}

GitResets(mode, target, r) ==
  LET moved == IF target = "HEAD~1"
               THEN [r EXCEPT !.commits = SubSeq(@, 1, Len(@) - 1),
                              !.pushed = IF @ > Len(r.commits) - 1
                                         THEN Len(r.commits) - 1 ELSE @]
               ELSE r
  IN IF mode \notin ResetModes THEN GitFail("other", r)
     ELSE IF target = "HEAD~1" /\ Len(r.commits) < 2 THEN GitFail("other", r)
     ELSE IF mode = "hard"
          THEN GitOk(<<Lit("HEAD is now at ")>>,
                     [moved EXCEPT !.unstaged = 0, !.staged = 0, !.both = 0])
     ELSE IF mode = "mixed"
          THEN GitOk(<<>>, [moved EXCEPT !.unstaged = StatusCount(r),
                                         !.staged = 0, !.both = 0])
     ELSE GitOk(<<>>, moved)

GitResetDoes(words, r) ==
  IF Len(words) # 2 \/ Len(words[1]) # 2 \/ Len(words[2]) # 1
     \/ words[1][1] # "--"
  THEN GitFail("other", r)
  ELSE GitResets(words[1][2], words[2][1], r)

\* The environment's names: a ref that exists and one that does not, a path
\* that exists in the directory and one that does not.
KnownRef    == <<"main">>
UnknownRef  == <<"nope">>
KnownPath   == <<"README">>
MissingPath == <<"missing.txt">>

\* What git does with a command's words on repository r when nothing goes
\* wrong in the environment.
GitWith(cmd, words, r) ==
  CASE cmd.c = "git init" -> GitOk(<<Lit("Initialized empty Git repository")>>,
                                   [r EXCEPT !.isRepo = TRUE])
    [] cmd.c = "git clone" -> GitOk(<<>>, r)
    [] cmd.c # "git init" /\ cmd.c # "git clone" /\ ~r.isRepo -> GitFail("notrepo", r)
    [] OTHER ->
       CASE cmd.c = "git rev-parse --git-dir" -> GitOk(<<Lit(".git")>>, r)
         [] cmd.c = "git status --porcelain" ->
              GitOk(FileLines(StatusCount(r)), r)
         [] cmd.c = "git add ." ->
              GitOk(<<>>, [r EXCEPT !.staged = StatusCount(r),
                                    !.unstaged = 0, !.both = 0])
         [] cmd.c \in {"git diff --cached --name-only",
                       "git diff --cached --name-status"} ->
              GitOk(FileLines(StagedCount(r)), r)
         [] cmd.c = "git commit -m" -> GitCommits(words, r)
         [] cmd.c = "git push" ->
              IF r.hasOrigin THEN GitOk(<<>>, [r EXCEPT !.pushed = Len(r.commits)])
              ELSE GitFail("other", r)
         [] cmd.c = "git pull" ->
              IF r.hasOrigin THEN GitOk(<<Lit("Already up to date.")>>, r)
              ELSE GitFail("other", r)
         [] cmd.c = "git remote get-url origin" ->
              IF r.hasOrigin THEN GitOk(<<Lit("origin-url")>>, r)
              ELSE GitFail("other", r)
         [] cmd.c = "git log @{u}.." ->
              IF r.hasOrigin
              THEN GitOk(LogEntries(r.commits, Len(r.commits) - r.pushed), r)
              ELSE GitFail("upstream", r)
         [] cmd.c = "git log --oneline" ->
              IF r.commits = <<>> THEN GitFail("other", r)
              ELSE GitOk(LogEntries(r.commits, cmd.n), r)
         [] cmd.c = "git reset" -> GitResetDoes(words, r)
         [] cmd.c = "git reset HEAD ." ->
              GitOk(<<>>, [r EXCEPT !.unstaged = StatusCount(r),
                                    !.staged = 0, !.both = 0])
         [] cmd.c = "git remote add" ->
              IF words # <<>> /\ words[1] = <<"origin">>
              THEN IF r.hasOrigin THEN GitFail("other", r)
                   ELSE GitOk(<<>>, [r EXCEPT !.hasOrigin = TRUE,
                                              !.pushed = 0])
              ELSE GitOk(<<>>, r)
         [] cmd.c = "git remote remove" ->
              IF words # <<>> /\ words[1] = <<"origin">>
              THEN IF r.hasOrigin
                   THEN GitOk(<<>>, [r EXCEPT !.hasOrigin = FALSE, !.pushed = 0])
                   ELSE GitFail("other", r)
              ELSE GitFail("other", r)
         [] cmd.c = "git branch --show-current" -> GitOk(<<Lit("main")>>, r)
         [] cmd.c = "git rev-parse --verify" ->
              IF words = <<KnownRef>> THEN GitOk(<<Lit("hash")>>, r)
              ELSE GitFail("other", r)
         [] OTHER -> GitOk(<<Lit("git output")>>, r)

\* The shell runs the command line: a line it cannot parse runs nothing; a
\* semicolon in the line makes it run git with the words before it and then
\* the rest as a command of its own, which here is no program, so the line
\* ends in failure.
ShellRuns(cmd, w, r) ==
  IF w.status = "syntax" THEN GitFail("other", r)
  ELSE IF w.status = "second" THEN GitFail("other", GitWith(cmd, w.words, r).repo)
  ELSE GitWith(cmd, w.words, r)

GitDoes(cmd, r) == ShellRuns(cmd, ShellWords(cmd.arg), r)


\* ------------------------------------------------ subprocess execution
\* The environment's choice for one request: the at-th subprocess started
\* for the request fails with stderr class err (at = 0: none does).
\* When at2 > 0 the at2-th subprocess fails as well, with an unclassified
\* stderr.
NoFault == [at |-> 0, err |-> "empty", at2 |-> 0]
FaultsUpTo(k) ==
  {NoFault}
    \cup [at : 1..k, err : ErrClasses, at2 : {0}]
    \cup {[at |-> p[1], err |-> e, at2 |-> p[2]] :
            p \in {q \in (1..k) \X (1..k) : q[2] - q[1] \in 1..2},
            e \in {"CONFLICT", "other"}}

\* One subprocess among the first k fails with an unclassified stderr.
PlainFaultsUpTo(k) == {NoFault} \cup [at : 1..k, err : {"other"}, at2 : {0}]

\* The outcome the environment gives the idx-th subprocess of the request.
Outcome(cmd, idx, r, fault) ==
  IF fault.at = idx THEN GitFail(fault.err, r)
  ELSE IF fault.at2 = idx THEN GitFail("other", r)
  ELSE GitDoes(cmd, r)

\* The state a handler threads through its awaits: the repository, the
\* subprocesses started so far, and which of them failed.
Start(r) == [repo |-> r, cmds |-> <<>>, failed |-> <<>>]

\* error.message as executeGitCommand rethrows it: the first matching
\* classification of stderr, else exec's own "Command failed" message.
ClassifiedMessage(cmd, e) ==
  LET has(x) == x \in StderrNeedles(e)
  IN IF ErrorCode(e) = "ETIMEDOUT" THEN <<Lit(T_ClsTimeout)>>
     ELSE IF has("not a git repository") THEN <<Lit(T_ClsNotRepo)>>
     ELSE IF has("nothing to commit") THEN <<Lit(T_ClsNothing)>>
     ELSE IF has("merge conflict") THEN <<Lit(T_ClsConflict)>>
     ELSE IF has("authentication failed") \/ has("Authentication failed")
          THEN <<Lit(T_ClsAuth)>>
     ELSE IF has("remote rejected") THEN <<Lit(T_ClsRejected)>>
     ELSE IF has("credential") \/ has("credentials") THEN <<Lit(T_ClsCredential)>>
     ELSE IF has("Permission denied") \/ has("permission denied")
          THEN <<Lit(T_ClsPermission)>>
     ELSE IF has("Could not resolve hostname") THEN <<Lit(T_ClsHostname)>>
     ELSE <<Lit(T_CmdFailed), CmdLine(cmd.c), StderrOf(e)>>

\* A failed subprocess: its position among the request's subprocesses and
\* the class of its stderr.
Failure(at, err) == [at |-> at, err |-> err]

\* executeGitCommand: run the command, return stdout or throw the
\* classified error (ok = FALSE: message and stderr are the thrown error's).
Settled(st, cmd, raw) ==
  [ok |-> raw.ok, stdout |-> raw.out, stderr |-> raw.err,
   message |-> IF raw.ok THEN <<>> ELSE ClassifiedMessage(cmd, raw.err),
   st |-> [repo |-> raw.repo, cmds |-> Append(st.cmds, cmd),
           failed |-> IF raw.ok THEN st.failed
                      ELSE Append(st.failed, Failure(Len(st.cmds) + 1, raw.err))]]

Executed(st, cmd, fault) ==
  Settled(st, cmd, Outcome(cmd, Len(st.cmds) + 1, st.repo, fault))

ExecuteGitCommand(st, c, arg, n, timeout, fault) ==
  Executed(st, Command(c, arg, n, timeout, TRUE, Cwd(st.repo.path)), fault)

\* executeGitCommand with the default timeout and no argument.
Exec(st, c, fault) == ExecuteGitCommand(st, c, <<>>, 0, DEFAULT_TIMEOUT, fault)

\* isGitRepository: git rev-parse --git-dir under the validation timeout;
\* any failure of the probe is the answer false.
RevParse(awaited, dir) ==
  Command("git rev-parse --git-dir", <<>>, 0, VALIDATION_TIMEOUT, awaited, Cwd(dir))

Probe(st, awaited, raw) ==
  [ok |-> raw.ok,
   st |-> [st EXCEPT !.cmds = Append(@, RevParse(awaited, st.repo.path)),
                     !.failed = IF raw.ok THEN @
                                ELSE Append(@, Failure(Len(st.cmds) + 1, raw.err))]]

IsGitRepository(st, fault) ==
  Probe(st, TRUE, Outcome(RevParse(TRUE, st.repo.path), Len(st.cmds) + 1, st.repo, fault))

\* isGitRepository called without await: the probe is started, its promise
\* is a truthy object, so the negated test is false whatever the probe finds.
IsGitRepositoryNotAwaited(st, fault) ==
  [ok |-> TRUE,
   st |-> Probe(st, FALSE,
                Outcome(RevParse(FALSE, st.repo.path), Len(st.cmds) + 1, st.repo, fault)).st]

\* createResponse: the operation result (text, error flag, operation name,
\* and the working directory, process.cwd() unless the caller passes one).
CreateResponse(operation, text, isError) ==
  [operation |-> operation, text |-> text, isError |-> isError,
   workingDirectory |-> ProcessCwd]

\* A handler returning a result made by createResponse without passing its
\* working directory.
RetDefaultDirectory(st, res) == [thrown |-> FALSE, result |-> res, st |-> st]

\* A handler's promise: resolved with a result, or rejected (thrown).  Every
\* call of createResponse in github.ts passes the handler's workingDir.
Ret(st, res) ==
  [thrown |-> FALSE, result |-> [res EXCEPT !.workingDirectory = st.repo.path],
   st |-> st]
Thrown(st, message) ==
  [thrown |-> TRUE, result |-> CreateResponse("", message, TRUE), st |-> st]

\* The common catch block: the text is Error: followed by error.message.
CatchMessage(op, x) ==
  Ret(x.st, CreateResponse(op, <<Lit(T_ErrorPrefix)>> \o x.message, TRUE))

\* error.stderr || error.message
StderrOrMessage(x) == IF x.stderr # "empty" THEN <<StderrOf(x.stderr)>> ELSE x.message

\* A validation error thrown inside a handler's try block.
CatchThrow(op, st, lit) ==
  Ret(st, CreateResponse(op, <<Lit(T_ErrorPrefix), Lit(lit)>>, TRUE))


\* ------------------------------------------------------- the handlers
\* Each handler maps the repository, its arguments and the environment's
\* fault to its promise: [thrown, result, st].  A handler is written as its
\* awaits in reverse order: each local operator is what the handler does once
\* the subprocess result it takes as parameter has arrived.

T_NoChangesToAdd == "No changes to add. Working directory is clean."
T_AddedPrefix    == "Successfully added "
T_AddedSuffix    == " file(s) to staging area. Staged files:"
T_AllAdded       == "All files added to staging area successfully."
T_AddedFallback  == "Successfully added all files to staging area."

\* add-all without the test of the status output: git add runs even on a
\* clean work tree.
GitAddAllUnchecked(r, fault) ==
  LET op == "git-add-all"
      Verified(after) ==
        IF ~after.ok
        THEN Ret(after.st, CreateResponse(op, <<Lit(T_AddedFallback)>>, FALSE))
        ELSE IF Len(after.stdout) > 0
        THEN Ret(after.st, CreateResponse(op,
               <<Lit(T_AddedPrefix), Num(Len(after.stdout)), Lit(T_AddedSuffix)>>
                 \o after.stdout, FALSE))
        ELSE Ret(after.st, CreateResponse(op, <<Lit(T_AllAdded)>>, FALSE))
      Added(add) ==
        IF ~add.ok THEN CatchMessage(op, add)
        ELSE Verified(Exec(add.st, "git diff --cached --name-status", fault))
      Checked(status) ==
        IF ~status.ok THEN CatchMessage(op, status)
        ELSE Added(Exec(status.st, "git add .", fault))
      Probed(p) ==
        IF ~p.ok THEN Ret(p.st, CreateResponse(op, <<Lit(T_NotRepoInit)>>, TRUE))
        ELSE Checked(Exec(p.st, "git status --porcelain", fault))
  IN Probed(IsGitRepository(Start(r), fault))

GitAddAll(r, fault) ==
  LET op == "git-add-all"
      Verified(after) ==
        IF ~after.ok
        THEN Ret(after.st, CreateResponse(op, <<Lit(T_AddedFallback)>>, FALSE))
        ELSE IF Len(after.stdout) > 0
        THEN Ret(after.st, CreateResponse(op,
               <<Lit(T_AddedPrefix), Num(Len(after.stdout)), Lit(T_AddedSuffix)>>
                 \o after.stdout, FALSE))
        ELSE Ret(after.st, CreateResponse(op, <<Lit(T_AllAdded)>>, FALSE))
      Added(add) ==
        IF ~add.ok THEN CatchMessage(op, add)
        ELSE Verified(Exec(add.st, "git diff --cached --name-status", fault))
      Checked(status) ==
        IF ~status.ok THEN CatchMessage(op, status)
        ELSE IF status.stdout = <<>>
        THEN Ret(status.st, CreateResponse(op, <<Lit(T_NoChangesToAdd)>>, FALSE))
        ELSE Added(Exec(status.st, "git add .", fault))
      Probed(p) ==
        IF ~p.ok THEN Ret(p.st, CreateResponse(op, <<Lit(T_NotRepoInit)>>, TRUE))
        ELSE Checked(Exec(p.st, "git status --porcelain", fault))
  IN Probed(IsGitRepository(Start(r), fault))

T_RemoteNotConfigured == "Remote: Not configured Branch: Unknown"
T_RepoClean  == "Repository is clean (no changes)"
T_RepoStatus == "Current repository status:"

GitStatus(r, fault) ==
  LET op == "git-status"
      Checked(ctx, status) ==
        IF ~status.ok THEN CatchMessage(op, status)
        ELSE IF status.stdout # <<>>
        THEN Ret(status.st, CreateResponse(op,
               ctx.text \o <<Lit(T_RepoStatus)>> \o status.stdout, FALSE))
        ELSE Ret(status.st, CreateResponse(op, ctx.text \o <<Lit(T_RepoClean)>>, FALSE))
      InContext(ctx) == Checked(ctx, Exec(ctx.st, "git status --porcelain", fault))
      OnBranch(remote, branch) ==
        InContext(IF ~remote.ok
                  THEN [text |-> <<Lit(T_RemoteNotConfigured)>>, st |-> remote.st]
                  ELSE IF ~branch.ok
                  THEN [text |-> remote.stdout \o <<Lit(T_RemoteNotConfigured)>>,
                        st |-> branch.st]
                  ELSE [text |-> remote.stdout \o branch.stdout, st |-> branch.st])
      WithRemote(remote) ==
        OnBranch(remote, Exec(remote.st, "git branch --show-current", fault))
      Probed(p) ==
        IF ~p.ok THEN CatchThrow(op, p.st, T_NotRepoThrow)
        ELSE WithRemote(Exec(p.st, "git remote get-url origin", fault))
  IN Probed(IsGitRepository(Start(r), fault))

T_CommitEmpty    == "Error: Commit message cannot be empty."
T_NoStaged       == "Error: No staged changes to commit. Use 'git add' to stage files first."
T_CommittedPrefix == "Successfully committed "
T_CommittedWith   == " file(s) with message: "
T_CommitDetails   == "Commit details:"
T_FilesCommitted  == "Files committed:"

\* The catch block of gitCommit, gitQuickCommit, gitSync and the others that
\* report error.stderr || error.message behind a prefix.
CatchStderr(op, prefix, x) ==
  Ret(x.st, CreateResponse(op, <<Lit(prefix)>> \o StderrOrMessage(x), TRUE))

\* git commit -m "<escapedMessage>" as every handler that commits builds it.
ExecuteCommit(st, message, fault) ==
  ExecuteGitCommand(st, "git commit -m", Quoted(EscapeMessage(message)), 0,
                    DEFAULT_TIMEOUT, fault)

GitCommit(message, r, fault) ==
  LET op == "git-commit"
      Committed(stagedFiles, commit) ==
        IF ~commit.ok THEN CatchStderr(op, T_ErrorPrefix, commit)
        ELSE Ret(commit.st, CreateResponse(op,
               <<Lit(T_CommittedPrefix), Num(Len(stagedFiles.stdout)),
                 Lit(T_CommittedWith), Str(message), Lit(T_CommitDetails)>>
                 \o commit.stdout
                 \o <<Lit(T_FilesCommitted)>> \o stagedFiles.stdout, FALSE))
      Listed(stagedFiles) ==
        IF ~stagedFiles.ok THEN CatchStderr(op, T_ErrorPrefix, stagedFiles)
        ELSE Committed(stagedFiles, ExecuteCommit(stagedFiles.st, message, fault))
      Named(names) ==
        IF ~names.ok THEN CatchStderr(op, T_ErrorPrefix, names)
        ELSE IF names.stdout = <<>>
        THEN Ret(names.st, CreateResponse(op, <<Lit(T_NoStaged)>>, TRUE))
        ELSE Listed(Exec(names.st, "git diff --cached --name-status", fault))
      Probed(p) ==
        IF ~p.ok THEN Ret(p.st, CreateResponse(op, <<Lit(T_NotRepoInit)>>, TRUE))
        ELSE IF ~Truthy(message) \/ Trim(message) = <<>>
        THEN Ret(p.st, CreateResponse(op, <<Lit(T_CommitEmpty)>>, TRUE))
        ELSE Named(Exec(p.st, "git diff --cached --name-only", fault))
  IN Probed(IsGitRepository(Start(r), fault))


T_NoRemote      == "Error: No remote repository configured. Add a remote with 'git remote add origin <url>'."
T_NothingToPush == "Nothing to push - all commits are already on remote."
T_Pushed        == "Successfully pushed changes to remote repository."
T_PushDone      == "Push completed successfully."
T_PushError     == "Error: "
T_SugPull       == "Suggestion: Pull the latest changes first with 'git pull' or use force push if you're sure."
T_SugUpstream   == "Suggestion: Set upstream branch with 'git push -u origin <branch-name>'."
T_SugAuth       == "Suggestions: Check your Git credentials with 'git config --list'"
T_SugCredential == "Suggestions: Configure Git credentials: git config --global credential.helper store"
T_SugPermission == "Suggestions: Verify SSH key setup: ssh -T git@github.com"

\* The suggestion gitPush's catch block appends to the error text.
PushSuggestion(errorMsg) ==
  IF Includes(errorMsg, "rejected") THEN <<Lit(T_SugPull)>>
  ELSE IF Includes(errorMsg, "upstream") THEN <<Lit(T_SugUpstream)>>
  ELSE IF Includes(errorMsg, "authentication failed")
          \/ Includes(errorMsg, "Authentication failed") THEN <<Lit(T_SugAuth)>>
  ELSE IF Includes(errorMsg, "credential") \/ Includes(errorMsg, "credentials")
       THEN <<Lit(T_SugCredential)>>
  ELSE IF Includes(errorMsg, "Permission denied") THEN <<Lit(T_SugPermission)>>
  ELSE <<>>

CatchPush(op, x) ==
  Ret(x.st, CreateResponse(op,
       <<Lit(T_PushError)>> \o StderrOrMessage(x)
         \o PushSuggestion(StderrOrMessage(x)), TRUE))

ExecutePush(st, fault) ==
  ExecuteGitCommand(st, "git push", <<>>, 0, PUSH_TIMEOUT, fault)

\* A comparison with the upstream that never tells the push is needless.
AlwaysToPush(ahead) == FALSE

\* The test of git log @{u}..: the command succeeded and printed nothing.
\* When it fails the catch block is empty and the push is attempted.
NothingToPush(ahead) == ahead.ok /\ ahead.stdout = <<>>

GitPush(r, fault) ==
  LET op == "git-push"
      Pushed(remote, branch, push) ==
        IF ~push.ok THEN CatchPush(op, push)
        ELSE Ret(push.st, CreateResponse(op,
               <<Lit(T_Pushed)>> \o remote.stdout \o branch.stdout
                 \o (IF push.stdout # <<>> THEN push.stdout
                     ELSE <<Lit(T_PushDone)>>), FALSE))
      OnBranch(remote, branch) ==
        IF ~branch.ok THEN CatchPush(op, branch)
        ELSE Pushed(remote, branch, ExecutePush(branch.st, fault))
      Compared(remote, ahead) ==
        IF NothingToPush(ahead)
        THEN Ret(ahead.st, CreateResponse(op, <<Lit(T_NothingToPush)>>, FALSE))
        ELSE OnBranch(remote, Exec(ahead.st, "git branch --show-current", fault))
      WithRemote(remote) ==
        IF ~remote.ok THEN Ret(remote.st, CreateResponse(op, <<Lit(T_NoRemote)>>, TRUE))
        ELSE Compared(remote, Exec(remote.st, "git log @{u}..", fault))
      Probed(p) ==
        IF ~p.ok THEN Ret(p.st, CreateResponse(op, <<Lit(T_NotRepoInit)>>, TRUE))
        ELSE WithRemote(Exec(p.st, "git remote get-url origin", fault))
  IN Probed(IsGitRepository(Start(r), fault))

\* The shape shared by the one-command handlers: probe the repository
\* (throwing notRepo inside the try block), run one command with the default
\* timeout, answer okText followed by its stdout (emptyText when stdout is
\* empty and emptyText is given).
OneCommand(op, notRepo, c, arg, n, okText, emptyText, r, fault) ==
  LET Opt(s) == IF s = "" THEN <<>> ELSE <<Lit(s)>>
      Ran(x) ==
        IF ~x.ok THEN CatchMessage(op, x)
        ELSE Ret(x.st, CreateResponse(op,
               Opt(okText) \o (IF x.stdout # <<>> THEN x.stdout ELSE Opt(emptyText)),
               FALSE))
      Probed(p) ==
        IF ~p.ok THEN CatchThrow(op, p.st, notRepo)
        ELSE Ran(ExecuteGitCommand(p.st, c, arg, n, DEFAULT_TIMEOUT, fault))
  IN Probed(IsGitRepository(Start(r), fault))

T_Pulled == "Successfully pulled changes from remote repository."

GitPull(r, fault) ==
  OneCommand("git-pull", T_NotRepoThrow, "git pull", <<>>, 0, T_Pulled,
             "Already up to date.", r, fault)

T_NoCommits == "No commits found"
DefaultMaxCount == 10

\* maxCount = 0 stands for an argument the caller did not supply.
GitLog(maxCount, r, fault) ==
  OneCommand("git-log", T_NotRepoThrow, "git log --oneline", <<>>,
             IF maxCount = 0 THEN DefaultMaxCount ELSE maxCount,
             "", T_NoCommits, r, fault)

T_ResetDone  == "Successfully reset repository ("
T_ResetTo    == ") to "
T_ResetCompleted == "Reset completed."

\* mode and target are one-word strings; NoValue takes the default.  The
\* help text is answered before the try block and before any probe.
ResetTry(mode, target, r, fault) ==
  LET op == "git-reset"
      Done(reset) ==
        IF ~reset.ok THEN CatchMessage(op, reset)
        ELSE Ret(reset.st, CreateResponse(op,
               <<Lit(T_ResetDone), Lit(mode[1]), Lit(T_ResetTo), Lit(target[1])>>
                 \o (IF reset.stdout # <<>> THEN reset.stdout
                     ELSE <<Lit(T_ResetCompleted)>>), FALSE))
      Probed(p) ==
        IF ~p.ok THEN CatchThrow(op, p.st, T_NotRepoThrow)
        ELSE Done(ExecuteGitCommand(p.st, "git reset",
                                    <<"--">> \o mode \o <<SP>> \o target, 0,
                                    DEFAULT_TIMEOUT, fault))
  IN Probed(IsGitRepository(Start(r), fault))

\* reset without the help branch: every mode goes to git.
ResetWithoutHelp(mode, target, r, fault) == ResetTry(mode, target, r, fault)

ResetWith(mode, target, r, fault) ==
  IF mode \in {<<"--help">>, <<"-h">>}
  THEN Ret(Start(r), CreateResponse("git-reset", <<Lit(T_ResetHelp)>>, FALSE))
  ELSE ResetTry(mode, target, r, fault)

GitReset(modeArg, targetArg, r, fault) ==
  ResetWith(IF modeArg = NoValue THEN <<"mixed">> ELSE modeArg,
            IF targetArg = NoValue THEN <<"HEAD">> ELSE targetArg, r, fault)

T_AlreadyRepo == "Directory is already a Git repository."
T_Initialized == "Successfully initialized empty Git repository."

GitInit(r, fault) ==
  LET op == "git-init"
      Done(init) ==
        IF ~init.ok THEN CatchMessage(op, init)
        ELSE Ret(init.st, CreateResponse(op, <<Lit(T_Initialized)>> \o init.stdout, FALSE))
      Probed(p) ==
        IF p.ok THEN Ret(p.st, CreateResponse(op, <<Lit(T_AlreadyRepo)>>, FALSE))
        ELSE Done(Exec(p.st, "git init", fault))
  IN Probed(IsGitRepository(Start(r), fault))

T_Cloned == "Successfully cloned repository from "

\* gitClone probes nothing: it runs in any directory.
GitClone(url, targetDir, r, fault) ==
  LET op == "git-clone"
      Done(clone) ==
        IF ~clone.ok THEN CatchMessage(op, clone)
        ELSE Ret(clone.st, CreateResponse(op, <<Lit(T_Cloned), Str(url)>>, FALSE))
  IN Done(ExecuteGitCommand(Start(r), "git clone",
            IF Truthy(targetDir) THEN Quoted(url) \o <<SP>> \o Quoted(targetDir)
            ELSE Quoted(url), 0,
            DEFAULT_TIMEOUT, fault))

T_FlowMsgRequired == "Error: Commit message is required for git flow."
T_FlowClean       == "Git Flow Complete: No changes to commit. Working directory is clean."
T_FlowStart       == "Starting Git Flow..."
T_FlowStep1       == "Step 1/3: Adding all changes..."
T_FlowStep2       == "Step 2/3: Creating commit..."
T_FlowStep3       == "Step 3/3: Pushing to remote..."
T_FlowDone        == "Git Flow Complete! All changes committed and pushed successfully."
T_FlowFailed      == "Git Flow failed: "
T_FlowAuthHelp    == "Git Flow Authentication Help:"
T_FlowRejected    == "Git Flow Push Rejected:"

\* A catch block of gitFlow without the "nothing to commit" branch.
CatchFlowAlwaysFails(op, st, errorMsg) ==
  Ret(st, CreateResponse(op, <<Lit(T_FlowFailed)>> \o errorMsg, TRUE))

\* The catch block of gitFlow: the progress log is dropped; an error text
\* that includes "nothing to commit" is answered with the success result.
CatchFlowText(op, st, errorMsg) ==
  IF Includes(errorMsg, "authentication") \/ Includes(errorMsg, "credential")
  THEN Ret(st, CreateResponse(op,
         <<Lit(T_FlowFailed)>> \o errorMsg \o <<Lit(T_FlowAuthHelp)>>, TRUE))
  ELSE IF Includes(errorMsg, "rejected")
  THEN Ret(st, CreateResponse(op,
         <<Lit(T_FlowFailed)>> \o errorMsg \o <<Lit(T_FlowRejected)>>, TRUE))
  ELSE IF Includes(errorMsg, "nothing to commit")
  THEN Ret(st, CreateResponse(op, <<Lit(T_FlowClean)>>, FALSE))
  ELSE Ret(st, CreateResponse(op, <<Lit(T_FlowFailed)>> \o errorMsg, TRUE))

CatchFlow(op, x) == CatchFlowText(op, x.st, StderrOrMessage(x))

GitFlow(message, r, fault) ==
  LET op == "git-flow"
      Pushed(remote, branch, staged, commit, push) ==
        IF ~push.ok THEN CatchFlow(op, push)
        ELSE Ret(push.st, CreateResponse(op,
               <<Lit(T_FlowStart)>> \o remote.stdout \o branch.stdout
                 \o <<Lit(T_FlowStep1), Num(Len(staged.stdout)), Lit(T_FlowStep2),
                      Str(message)>> \o commit.stdout
                 \o <<Lit(T_FlowStep3)>>
                 \o (IF push.stdout # <<>> THEN push.stdout ELSE <<Lit(T_PushDone)>>)
                 \o <<Lit(T_FlowDone)>>, FALSE))
      Committed(remote, branch, staged, commit) ==
        IF ~commit.ok THEN CatchFlow(op, commit)
        ELSE Pushed(remote, branch, staged, commit, ExecutePush(commit.st, fault))
      Staged(remote, branch, staged) ==
        IF ~staged.ok THEN CatchFlow(op, staged)
        ELSE Committed(remote, branch, staged,
                       ExecuteCommit(staged.st, message, fault))
      Added(remote, branch, add) ==
        IF ~add.ok THEN CatchFlow(op, add)
        ELSE Staged(remote, branch,
                    Exec(add.st, "git diff --cached --name-status", fault))
      Checked(remote, branch, status) ==
        IF ~status.ok THEN CatchFlow(op, status)
        ELSE IF status.stdout = <<>>
        THEN Ret(status.st, CreateResponse(op, <<Lit(T_FlowClean)>>, FALSE))
        ELSE Added(remote, branch, Exec(status.st, "git add .", fault))
      OnBranch(remote, branch) ==
        IF ~branch.ok THEN Ret(branch.st, CreateResponse(op, <<Lit(T_NoRemote)>>, TRUE))
        ELSE Checked(remote, branch, Exec(branch.st, "git status --porcelain", fault))
      WithRemote(remote) ==
        IF ~remote.ok THEN Ret(remote.st, CreateResponse(op, <<Lit(T_NoRemote)>>, TRUE))
        ELSE OnBranch(remote, Exec(remote.st, "git branch --show-current", fault))
      Probed(p) ==
        IF ~p.ok THEN Ret(p.st, CreateResponse(op, <<Lit(T_NotRepoInit)>>, TRUE))
        ELSE IF ~Truthy(message) \/ Trim(message) = <<>>
        THEN Ret(p.st, CreateResponse(op, <<Lit(T_FlowMsgRequired)>>, TRUE))
        ELSE WithRemote(Exec(p.st, "git remote get-url origin", fault))
  IN Probed(IsGitRepository(Start(r), fault))

T_QuickMsgRequired == "Error: Commit message is required."
T_QuickClean       == "No changes to commit. Working directory is clean."
T_QuickDone        == "Quick commit successful! Message: "

GitQuickCommit(message, r, fault) ==
  LET op == "git-quick-commit"
      Committed(commit) ==
        IF ~commit.ok THEN CatchStderr(op, T_ErrorPrefix, commit)
        ELSE Ret(commit.st, CreateResponse(op,
               <<Lit(T_QuickDone), Str(message)>> \o commit.stdout, FALSE))
      Added(add) ==
        IF ~add.ok THEN CatchStderr(op, T_ErrorPrefix, add)
        ELSE Committed(ExecuteCommit(add.st, message, fault))
      Checked(status) ==
        IF ~status.ok THEN CatchStderr(op, T_ErrorPrefix, status)
        ELSE IF status.stdout = <<>>
        THEN Ret(status.st, CreateResponse(op, <<Lit(T_QuickClean)>>, FALSE))
        ELSE Added(Exec(status.st, "git add .", fault))
      Probed(p) ==
        IF ~p.ok THEN Ret(p.st, CreateResponse(op, <<Lit(T_NotRepoInit)>>, TRUE))
        ELSE IF ~Truthy(message) \/ Trim(message) = <<>>
        THEN Ret(p.st, CreateResponse(op, <<Lit(T_QuickMsgRequired)>>, TRUE))
        ELSE Checked(Exec(p.st, "git status --porcelain", fault))
  IN Probed(IsGitRepository(Start(r), fault))

T_SyncStart   == "Starting Git Sync..."
T_SyncStep1   == "Step 1/2: Pulling from remote..."
T_SyncStep2   == "Step 2/2: Pushing to remote..."
T_SyncNothing == "Nothing to push - repository is up-to-date"
T_SyncDone    == "Sync Complete! Repository is synchronized with remote."
T_SyncFailed  == "Sync failed: "

\* The inner catch of gitSync swallows a push error whose message includes
\* "Everything up-to-date"; any other goes to the outer catch.
GitSync(r, fault) ==
  LET op == "git-sync"
      SyncLog(pull) ==
        <<Lit(T_SyncStart), Lit(T_SyncStep1)>> \o pull.stdout \o <<Lit(T_SyncStep2)>>
      Pushed(pull, push) ==
        IF push.ok
        THEN Ret(push.st, CreateResponse(op,
               SyncLog(pull) \o push.stdout \o <<Lit(T_SyncDone)>>, FALSE))
        ELSE IF Includes(push.message, "Everything up-to-date")
        THEN Ret(push.st, CreateResponse(op,
               SyncLog(pull) \o <<Lit(T_SyncNothing), Lit(T_SyncDone)>>, FALSE))
        ELSE CatchStderr(op, T_SyncFailed, push)
      Pulled(pull) ==
        IF ~pull.ok THEN CatchStderr(op, T_SyncFailed, pull)
        ELSE Pushed(pull, ExecutePush(pull.st, fault))
      Probed(p) ==
        IF ~p.ok THEN Ret(p.st, CreateResponse(op, <<Lit(T_NotRepoInit)>>, TRUE))
        ELSE Pulled(Exec(p.st, "git pull", fault))
  IN Probed(IsGitRepository(Start(r), fault))

T_NoFiles     == "No files specified to add"
T_FileMissing == "File does not exist: "

\* files.map(file => "${file}").join(' ')
RECURSIVE QuotedFiles(_)
QuotedFiles(files) ==
  IF files = <<>> THEN <<>>
  ELSE IF Len(files) = 1 THEN Quoted(<<files[1]>>)
  ELSE Quoted(<<files[1]>>) \o <<SP>> \o QuotedFiles(Tail(files))

\* files: NoValue, the empty array <<>>, or a list of paths.
GitAdd(files, r, fault) ==
  LET op == "git-add"
      Done(x) ==
        IF ~x.ok THEN CatchMessage(op, x)
        ELSE Ret(x.st, CreateResponse(op,
               <<Lit("Successfully added files to staging area: ")>> \o x.stdout, FALSE))
      Probed(p) ==
        IF ~p.ok THEN CatchThrow(op, p.st, T_NotRepoThrow)
        ELSE IF files = NoValue \/ files = <<>> THEN CatchThrow(op, p.st, T_NoFiles)
        ELSE IF \E i \in 1..Len(files) : files[i] = MissingPath[1]
        THEN CatchThrow(op, p.st, T_FileMissing)
        ELSE Done(ExecuteGitCommand(p.st, "git add", QuotedFiles(files), 0,
                                    DEFAULT_TIMEOUT, fault))
  IN Probed(IsGitRepository(Start(r), fault))

GitRemove(file, r, fault) ==
  OneCommand("git-remove", T_NotRepoThrow, "git reset HEAD", Quoted(file), 0,
             "Successfully removed file from staging area: ", "", r, fault)

GitRemoveAll(r, fault) ==
  OneCommand("git-remove-all", T_NotRepoThrow, "git reset HEAD .", <<>>, 0,
             "Successfully removed all files from staging area.", "", r, fault)

GitBranch(branchName, r, fault) ==
  IF Truthy(branchName)
  THEN OneCommand("git-branch", T_NotRepoThrow, "git branch", Quoted(branchName), 0,
                  "Successfully created branch: ", "", r, fault)
  ELSE OneCommand("git-branch", T_NotRepoThrow, "git branch -a", <<>>, 0,
                  "Available branches:", "", r, fault)

GitCheckout(branchName, createNew, r, fault) ==
  IF createNew
  THEN OneCommand("git-checkout", T_NotRepoThrow, "git checkout -b", Quoted(branchName), 0,
                  "Successfully created and switched to branch: ", "", r, fault)
  ELSE OneCommand("git-checkout", T_NotRepoThrow, "git checkout", Quoted(branchName), 0,
                  "Successfully switched to branch: ", "", r, fault)

GitDiff(target, r, fault) ==
  OneCommand("git-diff", T_NotRepoThrow, "git diff",
             IF Truthy(target) THEN target ELSE <<>>, 0, "", "No differences found",
             r, fault)

GitStash(message, r, fault) ==
  IF Truthy(message)
  THEN OneCommand("git-stash", T_NotRepoThrow, "git stash push -m", Quoted(message), 0,
                  "Successfully stashed changes.", "", r, fault)
  ELSE OneCommand("git-stash", T_NotRepoThrow, "git stash", <<>>, 0,
                  "Successfully stashed changes.", "", r, fault)

GitStashPop(r, fault) ==
  OneCommand("git-stash-pop", T_NotRepoThrow, "git stash pop", <<>>, 0,
             "Successfully applied stash.", "", r, fault)

GitRemoteList(r, fault) ==
  OneCommand("git-remote-list", T_NotRepoRemote, "git remote -v", <<>>, 0,
             "Remote repositories:", "", r, fault)

T_RemoteArgs == "Remote name and URL are required"
T_RemoteName == "Remote name is required"
T_BadUrl     == "Invalid Git URL format. Use HTTPS (https://...) or SSH (git@...) format."

\* urlPattern.test(url): the URL starts with http(s)://, git@ or ssh://.
GoodUrl == <<"https://host/repo.git">>
BadUrl  == <<"host/repo">>
UrlPatternTest(url) == url = GoodUrl

\* gitRemoteAdd and gitRemoteSetUrl share their body but for the command.
RemoteWithUrl(op, c, okText, name, url, r, fault) ==
  LET Done(x) ==
        IF ~x.ok THEN CatchMessage(op, x)
        ELSE Ret(x.st, CreateResponse(op, <<Lit(okText), Str(name)>>, FALSE))
      Probed(p) ==
        IF ~p.ok THEN CatchThrow(op, p.st, T_NotRepoRemote)
        ELSE IF ~Truthy(name) \/ ~Truthy(url) THEN CatchThrow(op, p.st, T_RemoteArgs)
        ELSE IF ~UrlPatternTest(url) THEN CatchThrow(op, p.st, T_BadUrl)
        ELSE Done(ExecuteGitCommand(p.st, c, Quoted(name) \o <<SP>> \o Quoted(url), 0,
                                    DEFAULT_TIMEOUT, fault))
  IN Probed(IsGitRepository(Start(r), fault))

GitRemoteAdd(name, url, r, fault) ==
  RemoteWithUrl("git-remote-add", "git remote add", "Successfully added remote ",
                name, url, r, fault)

GitRemoteSetUrl(name, url, r, fault) ==
  RemoteWithUrl("git-remote-set-url", "git remote set-url",
                "Successfully updated remote ", name, url, r, fault)

GitRemoteRemove(name, r, fault) ==
  LET op == "git-remote-remove"
      Done(x) ==
        IF ~x.ok THEN CatchMessage(op, x)
        ELSE Ret(x.st, CreateResponse(op,
               <<Lit("Successfully removed remote "), Str(name)>>, FALSE))
      Probed(p) ==
        IF ~p.ok THEN CatchThrow(op, p.st, T_NotRepoRemote)
        ELSE IF ~Truthy(name) THEN CatchThrow(op, p.st, T_RemoteName)
        ELSE Done(ExecuteGitCommand(p.st, "git remote remove", Quoted(name), 0,
                                    DEFAULT_TIMEOUT, fault))
  IN Probed(IsGitRepository(Start(r), fault))


T_TagFailed    == "Tag operation failed: "
T_TagName      == "Error: Tag name is required."
T_TagAction    == "Error: Invalid action. Use: list, create, delete, or show."
T_NoTags       == "No tags found in this repository."

\* The command a tag action runs; "" for an action that runs none.
TagCommand(action, message) ==
  CASE action = NoValue \/ action = <<"list">> -> "git tag --sort=-version:refname"
    [] action = <<"create">> -> IF Truthy(message) THEN "git tag -a" ELSE "git tag"
    [] action = <<"delete">> -> "git tag -d"
    [] action = <<"show">> -> "git show --stat"
    [] OTHER -> ""

TagOkText(action) ==
  CASE action = NoValue \/ action = <<"list">> -> "Available tags:"
    [] action = <<"create">> -> "Tag created successfully."
    [] action = <<"delete">> -> "Tag deleted successfully."
    [] OTHER -> "Tag details:"

\* action: NoValue, or a one-word string.
GitTag(action, tagName, message, r, fault) ==
  LET op == "git-tag"
      Done(x) ==
        IF ~x.ok THEN CatchStderr(op, T_TagFailed, x)
        ELSE Ret(x.st, CreateResponse(op, <<Lit(TagOkText(action))>> \o x.stdout, FALSE))
      Probed(p) ==
        IF ~p.ok THEN Ret(p.st, CreateResponse(op, <<Lit(T_NotRepoInit)>>, TRUE))
        ELSE IF action \in {<<"create">>, <<"delete">>, <<"show">>} /\ ~Truthy(tagName)
        THEN Ret(p.st, CreateResponse(op, <<Lit(T_TagName)>>, TRUE))
        ELSE IF TagCommand(action, message) = ""
        THEN Ret(p.st, CreateResponse(op, <<Lit(T_TagAction)>>, TRUE))
        ELSE Done(ExecuteGitCommand(p.st, TagCommand(action, message),
                    IF action = NoValue \/ action = <<"list">> THEN <<>>
                    ELSE IF action = <<"create">> /\ Truthy(message)
                    THEN Quoted(tagName) \o <<SP, "-m", SP>> \o Quoted(message)
                    ELSE Quoted(tagName),
                    0, DEFAULT_TIMEOUT, fault))
  IN Probed(IsGitRepositoryNotAwaited(Start(r), fault))

T_ConflictFiles   == "Conflicted files:"
T_ConflictResolve == "To resolve: 1. Edit the conflicted files 2. Run: git add <resolved-files>"
T_Uncommitted     == "Error: You have uncommitted changes. Please commit or stash them first."

\* The conflict report of merge, rebase and cherry-pick once the unmerged
\* files are listed.
ConflictReport(op, head, files) ==
  Ret(files.st, CreateResponse(op,
        <<Lit(head), Lit(T_ConflictFiles)>> \o files.stdout
          \o <<Lit(T_ConflictResolve)>>, TRUE))

ListConflicts(st, fault) == Exec(st, "git diff --name-only --diff-filter=U", fault)

T_MergeBranch   == "Error: Branch name is required for merge."
T_MergeNoBranch == "Error: Branch '"
T_DoesNotExist  == "' does not exist."
T_Merged        == "Successfully merged '"
T_MergedInto    == "' into current branch."
T_MergeConflict == "Merge conflict detected!"
T_MergeFailed   == "Merge failed: "

GitMerge(branch, strategy, r, fault) ==
  LET op == "git-merge"
      Listed(files) ==
        IF ~files.ok THEN CatchStderr(op, T_MergeFailed, files)
        ELSE ConflictReport(op, T_MergeConflict, files)
      Merged(merge) ==
        IF merge.ok
        THEN Ret(merge.st, CreateResponse(op, <<Lit(T_Merged), Str(branch), Lit(T_MergedInto)>>
                                                \o merge.stdout, FALSE))
        ELSE IF Includes(<<StderrOf(merge.stderr)>>, "CONFLICT")
        THEN Listed(ListConflicts(merge.st, fault))
        ELSE CatchStderr(op, T_MergeFailed, merge)
      Checked(status) ==
        IF ~status.ok THEN CatchStderr(op, T_MergeFailed, status)
        ELSE IF status.stdout # <<>>
        THEN Ret(status.st, CreateResponse(op, <<Lit(T_Uncommitted)>>, TRUE))
        ELSE Merged(ExecuteGitCommand(status.st, "git merge",
                      IF Truthy(strategy)
                      THEN Quoted(branch) \o <<SP, "--strategy=">> \o strategy
                      ELSE Quoted(branch), 0,
                      DEFAULT_TIMEOUT, fault))
      Verified(verify) ==
        IF ~verify.ok
        THEN Ret(verify.st, CreateResponse(op, <<Lit(T_MergeNoBranch), Str(branch), Lit(T_DoesNotExist)>>, TRUE))
        ELSE Checked(Exec(verify.st, "git status --porcelain", fault))
      Probed(p) ==
        IF ~p.ok THEN Ret(p.st, CreateResponse(op, <<Lit(T_NotRepoInit)>>, TRUE))
        ELSE IF ~Truthy(branch)
        THEN Ret(p.st, CreateResponse(op, <<Lit(T_MergeBranch)>>, TRUE))
        ELSE Verified(ExecuteGitCommand(p.st, "git rev-parse --verify", Quoted(branch), 0,
                                        DEFAULT_TIMEOUT, fault))
  IN Probed(IsGitRepositoryNotAwaited(Start(r), fault))

T_Rebased        == "Rebase completed successfully."
T_RebaseConflict == "Rebase conflict detected!"
T_RebaseFailed   == "Rebase failed: "

GitRebase(targetArg, interactive, r, fault) ==
  LET op == "git-rebase"
      target == IF Truthy(targetArg) THEN targetArg ELSE <<"HEAD~1">>
      Listed(files) ==
        IF ~files.ok THEN CatchStderr(op, T_RebaseFailed, files)
        ELSE ConflictReport(op, T_RebaseConflict, files)
      Rebased(rebase) ==
        IF rebase.ok
        THEN Ret(rebase.st, CreateResponse(op, <<Lit(T_Rebased)>> \o rebase.stdout, FALSE))
        ELSE IF Includes(<<StderrOf(rebase.stderr)>>, "CONFLICT")
        THEN Listed(ListConflicts(rebase.st, fault))
        ELSE CatchStderr(op, T_RebaseFailed, rebase)
      Checked(status) ==
        IF ~status.ok THEN CatchStderr(op, T_RebaseFailed, status)
        ELSE IF status.stdout # <<>>
        THEN Ret(status.st, CreateResponse(op, <<Lit(T_Uncommitted)>>, TRUE))
        ELSE Rebased(ExecuteGitCommand(status.st,
                       IF interactive THEN "git rebase -i" ELSE "git rebase",
                       Quoted(target), 0, DEFAULT_TIMEOUT, fault))
      Probed(p) ==
        IF ~p.ok THEN Ret(p.st, CreateResponse(op, <<Lit(T_NotRepoInit)>>, TRUE))
        ELSE Checked(Exec(p.st, "git status --porcelain", fault))
  IN Probed(IsGitRepositoryNotAwaited(Start(r), fault))

T_PickCommit   == "Error: Commit hash is required for cherry-pick."
T_PickNoCommit == "Error: Commit '"
T_Picked       == "Successfully cherry-picked commit '"
T_PickedEnd    == "'."
T_PickConflict == "Cherry-pick conflict detected!"
T_PickFailed   == "Cherry-pick failed: "

\* The catch block of gitCherryPick: the conflict report runs inside the
\* catch itself, so a failure while listing the files rejects the promise.
CatchCherryPick(op, x, fault) ==
  LET Listed(files) ==
        IF ~files.ok THEN Thrown(files.st, files.message)
        ELSE ConflictReport(op, T_PickConflict, files)
  IN IF Includes(<<StderrOf(x.stderr)>>, "CONFLICT")
     THEN Listed(ListConflicts(x.st, fault))
     ELSE CatchStderr(op, T_PickFailed, x)

GitCherryPick(commitHash, r, fault) ==
  LET op == "git-cherry-pick"
      Picked(pick) ==
        IF ~pick.ok THEN CatchCherryPick(op, pick, fault)
        ELSE Ret(pick.st, CreateResponse(op, <<Lit(T_Picked), Str(commitHash), Lit(T_PickedEnd)>>
                                               \o pick.stdout, FALSE))
      Checked(status) ==
        IF ~status.ok THEN CatchCherryPick(op, status, fault)
        ELSE IF status.stdout # <<>>
        THEN Ret(status.st, CreateResponse(op, <<Lit(T_Uncommitted)>>, TRUE))
        ELSE Picked(ExecuteGitCommand(status.st, "git cherry-pick", Quoted(commitHash), 0,
                                      DEFAULT_TIMEOUT, fault))
      Verified(verify) ==
        IF ~verify.ok
        THEN Ret(verify.st, CreateResponse(op, <<Lit(T_PickNoCommit), Str(commitHash), Lit(T_DoesNotExist)>>, TRUE))
        ELSE Checked(Exec(verify.st, "git status --porcelain", fault))
      Probed(p) ==
        IF ~p.ok THEN Ret(p.st, CreateResponse(op, <<Lit(T_NotRepoInit)>>, TRUE))
        ELSE IF ~Truthy(commitHash)
        THEN Ret(p.st, CreateResponse(op, <<Lit(T_PickCommit)>>, TRUE))
        ELSE Verified(ExecuteGitCommand(p.st, "git rev-parse --verify", Quoted(commitHash), 0,
                                        DEFAULT_TIMEOUT, fault))
  IN Probed(IsGitRepositoryNotAwaited(Start(r), fault))

T_BlamePath    == "Error: File path is required for blame."
T_BlameMissing == "Error: File '"
T_BlameFailed  == "Blame failed: "

GitBlame(filePath, lineRange, r, fault) ==
  LET op == "git-blame"
      Done(x) ==
        IF ~x.ok THEN CatchStderr(op, T_BlameFailed, x)
        ELSE Ret(x.st, CreateResponse(op, <<Lit("Blame information:")>> \o x.stdout, FALSE))
      Probed(p) ==
        IF ~p.ok THEN Ret(p.st, CreateResponse(op, <<Lit(T_NotRepoInit)>>, TRUE))
        ELSE IF ~Truthy(filePath)
        THEN Ret(p.st, CreateResponse(op, <<Lit(T_BlamePath)>>, TRUE))
        ELSE IF filePath = MissingPath
        THEN Ret(p.st, CreateResponse(op, <<Lit(T_BlameMissing), Str(filePath), Lit(T_DoesNotExist)>>, TRUE))
        ELSE Done(ExecuteGitCommand(p.st, "git blame",
                    IF Truthy(lineRange)
                    THEN Quoted(filePath) \o <<SP, "-L", SP>> \o lineRange
                    ELSE Quoted(filePath), 0,
                    DEFAULT_TIMEOUT, fault))
  IN Probed(IsGitRepositoryNotAwaited(Start(r), fault))

T_BisectAction == "Error: Invalid action. Use: start, bad, good, reset, or status."
T_BisectFailed == "Bisect failed: "

BisectCommand(action) ==
  CASE action = <<"start">> -> "git bisect start"
    [] action = <<"bad">> -> "git bisect bad"
    [] action = <<"good">> -> "git bisect good"
    [] action = <<"reset">> -> "git bisect reset"
    [] action = <<"status">> -> "git bisect log"
    [] OTHER -> ""

GitBisect(action, commit, r, fault) ==
  LET op == "git-bisect"
      Done(x) ==
        IF ~x.ok THEN CatchStderr(op, T_BisectFailed, x)
        ELSE Ret(x.st, CreateResponse(op, <<Lit("Bisect:")>> \o x.stdout, FALSE))
      Probed(p) ==
        IF ~p.ok THEN Ret(p.st, CreateResponse(op, <<Lit(T_NotRepoInit)>>, TRUE))
        ELSE IF BisectCommand(action) = ""
        THEN Ret(p.st, CreateResponse(op, <<Lit(T_BisectAction)>>, TRUE))
        ELSE Done(ExecuteGitCommand(p.st, BisectCommand(action),
                    IF action \in {<<"bad">>, <<"good">>} /\ Truthy(commit)
                    THEN Quoted(commit)
                    ELSE <<>>, 0, DEFAULT_TIMEOUT, fault))
  IN Probed(IsGitRepositoryNotAwaited(Start(r), fault))


\* ------------------------------------------------- the tools/call handler
\* The argument bag of a request; NoValue (maxCount: 0, flags: FALSE) is an
\* argument the caller left out.
ArgsNone ==
  [message |-> NoValue, files |-> NoValue, file |-> NoValue,
   branchName |-> NoValue, createNew |-> FALSE, maxCount |-> 0,
   target |-> NoValue, mode |-> NoValue, url |-> NoValue, targetDir |-> NoValue,
   name |-> NoValue, action |-> NoValue, tagName |-> NoValue, branch |-> NoValue,
   strategy |-> NoValue, commitHash |-> NoValue, filePath |-> NoValue,
   lineRange |-> NoValue, commit |-> NoValue, interactive |-> FALSE,
   directory |-> NoValue]

RegisteredTools ==
  {"git-add-all", "git-add", "git-remove", "git-remove-all", "git-status",
   "git-commit", "git-push", "git-pull", "git-branch", "git-checkout", "git-log",
   "git-diff", "git-stash", "git-stash-pop", "git-reset", "git-clone", "git-init",
   "git-remote-list", "git-remote-add", "git-remote-remove", "git-remote-set-url",
   "git-flow", "git-quick-commit", "git-sync", "git-tag", "git-merge",
   "git-rebase", "git-cherry-pick", "git-blame", "git-bisect"}

UnknownTool == "git-unknown"
ToolNames == RegisteredTools \cup {UnknownTool}

\* The payload serialised into the response's text: either the handler's
\* operation result (content text and isError), or the failure object
\* {success: false, message} built by the handler's catch block.
ResultPayload(res) == [shape |-> "result", text |-> res.text, isError |-> res.isError]
FailurePayload(message) == [shape |-> "failure", text |-> message, isError |-> FALSE]

\* A dispatcher without the catch block: a throw leaves the request with no
\* response.
RespondUncaught(h) ==
  IF h.thrown
  THEN [response |-> [isError |-> FALSE,
                      payload |-> [shape |-> "none", text |-> <<>>, isError |-> FALSE]],
        reached |-> TRUE, h |-> h]
  ELSE [response |-> [isError |-> FALSE, payload |-> ResultPayload(h.result)],
        reached |-> TRUE, h |-> h]

\* A tools/call response: one text content item; isError is set only by the
\* catch block.
Respond(h) ==
  IF h.thrown
  THEN [response |-> [isError |-> TRUE, payload |-> FailurePayload(h.result.text)],
        reached |-> TRUE, h |-> h]
  ELSE [response |-> [isError |-> FALSE, payload |-> ResultPayload(h.result)],
        reached |-> TRUE, h |-> h]

\* throw new Error(lit) before any handler is called.
Reject(lit, r) ==
  [response |-> [isError |-> TRUE, payload |-> FailurePayload(<<Lit(lit)>>)],
   reached |-> FALSE, h |-> Thrown(Start(r), <<Lit(lit)>>)]

T_FilesRequired   == "files parameter is required and must be an array"
T_FileRequired    == "file parameter is required"
T_MessageRequired == "message parameter is required"
T_BranchRequired  == "branchName parameter is required"
T_UrlRequired     == "url parameter is required"
T_NameUrlRequired == "name and url parameters are required"
T_NameRequired    == "name parameter is required"
T_UnknownTool     == "Unknown tool: "

CallToolSwitch(name, a, r, fault) ==
  CASE name = "git-add-all" -> Respond(GitAddAll(r, fault))
    [] name = "git-add" ->
         IF a.files = NoValue THEN Reject(T_FilesRequired, r)
         ELSE Respond(GitAdd(a.files, r, fault))
    [] name = "git-remove" ->
         IF ~Truthy(a.file) THEN Reject(T_FileRequired, r)
         ELSE Respond(GitRemove(a.file, r, fault))
    [] name = "git-remove-all" -> Respond(GitRemoveAll(r, fault))
    [] name = "git-status" -> Respond(GitStatus(r, fault))
    [] name = "git-commit" ->
         IF ~Truthy(a.message) THEN Reject(T_MessageRequired, r)
         ELSE Respond(GitCommit(a.message, r, fault))
    [] name = "git-push" -> Respond(GitPush(r, fault))
    [] name = "git-pull" -> Respond(GitPull(r, fault))
    [] name = "git-branch" -> Respond(GitBranch(a.branchName, r, fault))
    [] name = "git-checkout" ->
         IF ~Truthy(a.branchName) THEN Reject(T_BranchRequired, r)
         ELSE Respond(GitCheckout(a.branchName, a.createNew, r, fault))
    [] name = "git-log" -> Respond(GitLog(a.maxCount, r, fault))
    [] name = "git-diff" -> Respond(GitDiff(a.target, r, fault))
    [] name = "git-stash" -> Respond(GitStash(a.message, r, fault))
    [] name = "git-stash-pop" -> Respond(GitStashPop(r, fault))
    [] name = "git-reset" -> Respond(GitReset(a.mode, a.target, r, fault))
    [] name = "git-clone" ->
         IF ~Truthy(a.url) THEN Reject(T_UrlRequired, r)
         ELSE Respond(GitClone(a.url, a.targetDir, r, fault))
    [] name = "git-init" -> Respond(GitInit(r, fault))
    [] name = "git-remote-list" -> Respond(GitRemoteList(r, fault))
    [] name = "git-remote-add" ->
         IF ~Truthy(a.name) \/ ~Truthy(a.url) THEN Reject(T_NameUrlRequired, r)
         ELSE Respond(GitRemoteAdd(a.name, a.url, r, fault))
    [] name = "git-remote-remove" ->
         IF ~Truthy(a.name) THEN Reject(T_NameRequired, r)
         ELSE Respond(GitRemoteRemove(a.name, r, fault))
    [] name = "git-remote-set-url" ->
         IF ~Truthy(a.name) \/ ~Truthy(a.url) THEN Reject(T_NameUrlRequired, r)
         ELSE Respond(GitRemoteSetUrl(a.name, a.url, r, fault))
    [] name = "git-flow" ->
         IF ~Truthy(a.message) THEN Reject(T_MessageRequired, r)
         ELSE Respond(GitFlow(a.message, r, fault))
    [] name = "git-quick-commit" ->
         IF ~Truthy(a.message) THEN Reject(T_MessageRequired, r)
         ELSE Respond(GitQuickCommit(a.message, r, fault))
    [] name = "git-sync" -> Respond(GitSync(r, fault))
    [] name = "git-tag" -> Respond(GitTag(a.action, a.tagName, a.message, r, fault))
    [] name = "git-merge" -> Respond(GitMerge(a.branch, a.strategy, r, fault))
    [] name = "git-rebase" -> Respond(GitRebase(a.target, a.interactive, r, fault))
    [] name = "git-cherry-pick" -> Respond(GitCherryPick(a.commitHash, r, fault))
    [] name = "git-blame" -> Respond(GitBlame(a.filePath, a.lineRange, r, fault))
    [] name = "git-bisect" -> Respond(GitBisect(a.action, a.commit, r, fault))
    [] OTHER -> Reject(T_UnknownTool, r)


\* const workingDir = directory || process.cwd(), the first statement of
\* every handler: the directory under the name the handler uses for it.
WorkingDir(directory, r) ==
  [r EXCEPT !.path = IF Truthy(directory) THEN directory ELSE ProcessCwd]

\* The directory once the request is over.
OnDisk(r) == [r EXCEPT !.path = ProcessCwd]

CallToolHandler(name, a, r, fault) ==
  CallToolSwitch(name, a, WorkingDir(a.directory, r), fault)

\* ------------------------------------------------------ request inputs
\* The directory argument: absent, or a path.
Directories == {NoValue, GivenDir}

\* Commit messages a caller sends: missing, empty, blank, plain, and with
\* backslashes.
Messages == {NoValue, MsgEmpty, MsgBlank, MsgPlain, MsgBsEnd}
AllMessages == Messages \cup {MsgBsBs, MsgQuote, MsgDollar}

\* A diff target that carries a command of its own: main;a
RefThenCommand == KnownRef \o <<SEMI, "a">>

With(f, S) == {[ArgsNone EXCEPT ![f] = v] : v \in S}

ArgChoices(name, messages) ==
  CASE name \in {"git-commit", "git-flow", "git-quick-commit"} -> With("message", messages)
    [] name = "git-add" -> With("files", {NoValue, <<>>, KnownPath, MissingPath})
    [] name = "git-remove" -> With("file", {NoValue, KnownPath})
    [] name = "git-branch" -> With("branchName", {NoValue, <<"feature">>})
    [] name = "git-checkout" ->
         {[ArgsNone EXCEPT !.branchName = b, !.createNew = c] :
            b \in {NoValue, KnownRef}, c \in BOOLEAN}
    [] name = "git-log" -> With("maxCount", {0, 1, 2})
    [] name = "git-diff" -> With("target", {NoValue, KnownRef, RefThenCommand})
    [] name = "git-stash" -> With("message", {NoValue, MsgPlain})
    [] name = "git-reset" ->
         {[ArgsNone EXCEPT !.mode = m, !.target = t] :
            m \in {NoValue, <<"soft">>, <<"hard">>, <<"--help">>, <<"--hard">>},
            t \in {NoValue, <<"HEAD~1">>}}
    [] name = "git-clone" -> With("url", {NoValue, GoodUrl})
    [] name \in {"git-remote-add", "git-remote-set-url"} ->
         {[ArgsNone EXCEPT !.name = n, !.url = u] :
            n \in {NoValue, <<"origin">>}, u \in {NoValue, GoodUrl, BadUrl}}
    [] name = "git-remote-remove" -> With("name", {NoValue, <<"origin">>})
    [] name = "git-tag" ->
         {[ArgsNone EXCEPT !.action = x, !.tagName = t] :
            x \in {NoValue, <<"create">>, <<"bogus">>},
            t \in {NoValue, <<"v1">>}}
    [] name = "git-merge" -> With("branch", {NoValue, KnownRef, UnknownRef})
    [] name = "git-rebase" -> With("target", {NoValue, KnownRef})
    [] name = "git-cherry-pick" -> With("commitHash", {NoValue, KnownRef, UnknownRef})
    [] name = "git-blame" -> With("filePath", {NoValue, KnownPath, MissingPath})
    [] name = "git-bisect" -> With("action", {NoValue, <<"start">>, <<"bogus">>})
    [] OTHER -> {ArgsNone}

\* ------------------------------------------------------------- actions
NoRequest == [name |-> "", args |-> ArgsNone, via |-> ""]
NoRun == [cmds |-> <<>>, failed |-> <<>>, asked |-> FALSE, reached |-> FALSE, thrown |-> FALSE,
          result |-> CreateResponse("", <<>>, FALSE), before |-> EmptyDir,
          faulted |-> FALSE]
NoResponse == [isError |-> FALSE, payload |-> FailurePayload(<<>>)]
NoAlias == [name |-> "", argv |-> <<>>, steps |-> <<>>, help |-> FALSE]

\* The repository of the workflow scripts.  branch: the branch checked out;
\* branches: the local branches; merged: the local branches whose commits
\* the main branch holds; remote: the branches of origin; upstream: the
\* local branches whose upstream branch holds their commits;
\* changes: how many tracked files have uncommitted changes;
\* stashes: the stash entries, stash@{0} first, each the serial number of
\* its creation and the changes it holds; stashed: how many entries were
\* ever made; tags: the tags, oldest first; stale: origin lost a branch a
\* remote-tracking branch still names.
FreshTree ==
  [branch |-> "main", branches |-> {"main"}, merged |-> {"main"},
   remote |-> {"main"}, upstream |-> {"main"}, changes |-> 0,
   stashes |-> <<>>, stashed |-> 0, tags |-> 0, stale |-> FALSE]

\* The environment's choices for one run of a script: the at-th subprocess
\* it starts fails with stderr err (at = 0: none); yes: the user answers y
\* to its questions; choice: the menu entry the user picks; chunks: in how
\* many pieces a piped stdout arrives; slow: a subprocess started in the
\* background takes longer than the script's timer.
\* pkg: the directory holds a package.json.
Calm ==
  [at |-> 0, err |-> "fatal", yes |-> TRUE, choice |-> "0", chunks |-> 1,
   slow |-> FALSE, pkg |-> FALSE]

\* No workflow script has run.  cmds: the subprocesses the script started,
\* in order; before: the repository when it started; runs: how many times
\* its workflow was entered.
NoJob ==
  [name |-> "", argv |-> <<>>, cmds |-> <<>>, before |-> FreshTree, runs |-> 0,
   env |-> Calm]

Init ==
  /\ repo = EmptyDir
  /\ pc = "idle"
  /\ request = NoRequest
  /\ run = NoRun
  /\ response = NoResponse
  /\ exitCode = -1
  /\ alias = NoAlias
  /\ tree = FreshTree
  /\ job = NoJob

\* before: the repository when the request arrived; faulted: the environment
\* made one of the request's subprocesses fail.
RunOf(d, r, fault) ==
  [cmds |-> d.h.st.cmds, failed |-> d.h.st.failed, asked |-> TRUE, reached |-> d.reached,
   thrown |-> d.h.thrown, result |-> d.h.result, before |-> r,
   faulted |-> fault.at \in 1..Len(d.h.st.cmds)]

\* The most subprocesses a request for the tool starts.
Subprocesses(name) ==
  CASE name = "git-flow" -> 8
    [] name \in {"git-push", "git-merge", "git-cherry-pick"} -> 5
    [] name \in {"git-add-all", "git-status", "git-commit", "git-quick-commit",
                 "git-rebase"} -> 4
    [] name = "git-sync" -> 3
    [] name = "git-clone" -> 1
    [] name = UnknownTool -> 0
    [] OTHER -> 2

\* The server receives a tools/call request and runs its handler to the
\* end: the subprocesses change the repository, the response is built.
\* d is what the tools/call handler made of the request.
Responded(name, a, fault, d) ==
  /\ Len(d.h.st.repo.commits) <= MaxCommits
  /\ repo' = OnDisk(d.h.st.repo)
  /\ request' = [name |-> name, args |-> a, via |-> "mcp"]
  /\ run' = RunOf(d, repo, fault)
  /\ response' = d.response
  /\ pc' = "responded"

Sent(name, a, fault) ==
  Responded(name, a, fault, CallToolHandler(name, a, repo, fault))

CallToolFrom(names, messages, faulty) ==
  /\ pc = "idle"
  /\ \E name \in names : \E b \in ArgChoices(name, messages) :
     \E dir \in Directories :
     \E fault \in (IF ~faulty THEN {NoFault}
                   ELSE IF dir = NoValue THEN FaultsUpTo(Subprocesses(name))
                   ELSE PlainFaultsUpTo(Subprocesses(name))) :
       Sent(name, [b EXCEPT !.directory = dir], fault)
  /\ UNCHANGED <<exitCode, alias, tree, job>>

CallTool == CallToolFrom(ToolNames, Messages, TRUE)

\* The transport writes the response; the server waits for the next request.
Deliver ==
  /\ pc = "responded"
  /\ pc' = "idle"
  /\ request' = NoRequest
  /\ run' = NoRun
  /\ response' = NoResponse
  /\ UNCHANGED <<repo, exitCode, alias, tree, job>>

\* The user edits or creates file f in the working directory.
WriteFile ==
  /\ pc = "idle"
  /\ \/ /\ StatusCount(repo) < NumFiles
        /\ repo' = [repo EXCEPT !.unstaged = @ + 1]
     \/ /\ repo.staged > 0
        /\ repo' = [repo EXCEPT !.staged = @ - 1, !.both = @ + 1]
  /\ UNCHANGED <<pc, request, run, response, exitCode, alias, tree, job>>

Next == CallTool \/ Deliver \/ WriteFile

Spec == Init /\ [][Next]_vars

\* ------------------------------------------------- the command line client
\* A command line is a tool word and a list of argument words.
At(argv, i) == IF i <= Len(argv) THEN argv[i] ELSE NoValue

\* actualArgs.join(' ')
RECURSIVE Join(_)
Join(argv) ==
  IF argv = <<>> THEN <<>>
  ELSE IF Len(argv) = 1 THEN argv[1]
  ELSE argv[1] \o <<SP>> \o Join(Tail(argv))

RECURSIVE Concat(_)
Concat(argv) == IF argv = <<>> THEN <<>> ELSE argv[1] \o Concat(Tail(argv))

HasWord(argv, w) == \E i \in 1..Len(argv) : argv[i] = w

\* parseInt of a word; 0 stands for NaN.
ParseInt(w) == CASE w = <<"1">> -> 1 [] w = <<"2">> -> 2 [] OTHER -> 0

\* Names the argument switch knows as workflows served by bin scripts only.
WorkflowOnly ==
  {"git-dev", "git-workflow", "git-fix", "git-fresh", "git-backup", "git-clean",
   "git-save", "git-list", "git-release"}

\* The switch that turns the argument words into the tool's arguments.
ParseArgs(tool, argv) ==
  LET a1 == At(argv, 1)
      a2 == At(argv, 2)
  IN
  IF argv = <<>> THEN ArgsNone
  ELSE
  CASE tool = "git-add" -> [ArgsNone EXCEPT !.files = Concat(argv)]
    [] tool \in {"git-commit", "git-flow", "git-quick-commit"} ->
         [ArgsNone EXCEPT !.message = Join(argv)]
    [] tool = "git-remove" -> [ArgsNone EXCEPT !.file = a1]
    [] tool = "git-branch" ->
         IF Truthy(a1) THEN [ArgsNone EXCEPT !.branchName = a1] ELSE ArgsNone
    [] tool = "git-checkout" ->
         [ArgsNone EXCEPT !.branchName = a1,
            !.createNew = HasWord(argv, <<"--create">>) \/ HasWord(argv, <<"-b">>)]
    [] tool = "git-log" ->
         IF Truthy(a1) /\ ParseInt(a1) # 0
         THEN [ArgsNone EXCEPT !.maxCount = ParseInt(a1)] ELSE ArgsNone
    [] tool = "git-diff" ->
         IF Truthy(a1) THEN [ArgsNone EXCEPT !.target = a1] ELSE ArgsNone
    [] tool = "git-stash" ->
         IF Truthy(a1) THEN [ArgsNone EXCEPT !.message = Join(argv)] ELSE ArgsNone
    [] tool = "git-reset" ->
         IF Truthy(a1)
         THEN [ArgsNone EXCEPT !.mode = a1,
                 !.target = IF Truthy(a2) THEN a2 ELSE NoValue]
         ELSE ArgsNone
    [] tool = "git-clone" ->
         [ArgsNone EXCEPT !.url = a1,
            !.targetDir = IF Truthy(a2) THEN a2 ELSE NoValue]
    [] tool \in {"git-remote-add", "git-remote-set-url"} ->
         [ArgsNone EXCEPT !.name = a1, !.url = a2]
    [] tool = "git-remote-remove" -> [ArgsNone EXCEPT !.name = a1]
    [] tool = "git-tag" ->
         IF Truthy(a1)
         THEN [ArgsNone EXCEPT !.action = a1,
                 !.tagName = IF Truthy(a2) THEN a2 ELSE NoValue,
                 !.message = IF Truthy(At(argv, 3))
                             THEN Join(SubSeq(argv, 3, Len(argv))) ELSE NoValue]
         ELSE ArgsNone
    [] tool = "git-merge" ->
         IF Truthy(a1)
         THEN [ArgsNone EXCEPT !.branch = a1,
                 !.strategy = IF Truthy(a2) THEN a2 ELSE NoValue]
         ELSE ArgsNone
    [] tool = "git-rebase" ->
         IF Truthy(a1)
         THEN [ArgsNone EXCEPT !.target = a1,
                 !.interactive = HasWord(argv, <<"--interactive">>)
                                   \/ HasWord(argv, <<"-i">>)]
         ELSE ArgsNone
    [] tool = "git-cherry-pick" ->
         IF Truthy(a1) THEN [ArgsNone EXCEPT !.commitHash = a1] ELSE ArgsNone
    [] tool = "git-blame" ->
         IF Truthy(a1)
         THEN [ArgsNone EXCEPT !.filePath = a1,
                 !.lineRange = IF Truthy(a2) THEN a2 ELSE NoValue]
         ELSE ArgsNone
    [] tool = "git-bisect" ->
         IF Truthy(a1)
         THEN [ArgsNone EXCEPT !.action = a1,
                 !.commit = IF Truthy(a2) THEN a2 ELSE NoValue]
         ELSE ArgsNone
    [] OTHER -> ArgsNone

\* The close handler of callTool: the response's text is parsed; the promise
\* resolves when the parsed object has a content item, and rejects when it
\* has none and its success field is false.
CallToolResolves(resp) == resp.payload.shape = "result"

NotCalled(r) ==
  [response |-> NoResponse, reached |-> FALSE, h |-> Ret(Start(r), CreateResponse("", <<>>, FALSE))]

\* main of the client run as: node mcp-cli.js tool argv...  The result is the
\* exit code, whether the server was asked, the arguments sent and what the
\* server did.
Called(args, d) ==
  [exit |-> IF CallToolResolves(d.response) THEN 0 ELSE 1,
   called |-> TRUE, args |-> args, d |-> d]

Quit(code, args, r) ==
  [exit |-> code, called |-> FALSE, args |-> args, d |-> NotCalled(r)]

\* callTool: the client sends its own current directory when the arguments
\* name none.
InClientCwd(args) ==
  IF Truthy(args.directory) THEN args ELSE [args EXCEPT !.directory = ClientCwd]

CallTool_(tool, args, r, fault) ==
  Called(args, CallToolHandler(tool, args, r, fault))

MainWith(tool, argv, args, r, fault) ==
  IF tool \in {"", "help", "--help", "-h", "list", "ls"} THEN Quit(0, args, r)
  ELSE IF argv # <<>> /\ tool \in WorkflowOnly THEN Quit(1, args, r)
  ELSE IF tool \notin {"git-clone", "git-list"} /\ ~r.isRepo THEN Quit(1, args, r)
  ELSE CallTool_(tool, InClientCwd(args), r, fault)

Main(tool, argv, r, fault) == MainWith(tool, argv, ParseArgs(tool, argv), r, fault)

\* Command lines a user types.
CliTools == ToolNames \cup {"", "list", "git-dev"}

CliArgv(tool) ==
  CASE tool \in {"git-commit", "git-flow", "git-quick-commit"} ->
         {<<>>, <<MsgEmpty>>, <<MsgPlain>>, <<MsgBlank, MsgPlain>>, <<MsgBsEnd>>}
    [] tool = "git-add" -> {<<>>, <<KnownPath>>, <<MissingPath>>}
    [] tool = "git-remove" -> {<<>>, <<KnownPath>>}
    [] tool \in {"git-branch", "git-checkout"} -> {<<>>, <<KnownRef>>, <<KnownRef, <<"-b">> >>}
    [] tool = "git-log" -> {<<>>, << <<"1">> >>, << <<"x">> >>}
    [] tool = "git-reset" ->
         {<<>>, << <<"hard">> >>, << <<"--hard">> >>, << <<"--help">> >>,
          << <<"hard">>, <<"HEAD~1">> >>}
    [] tool = "git-clone" -> {<<>>, <<GoodUrl>>}
    [] tool \in {"git-remote-add", "git-remote-set-url"} ->
         {<<>>, << <<"origin">> >>, << <<"origin">>, GoodUrl>>}
    [] tool = "git-remote-remove" -> {<<>>, << <<"origin">> >>}
    [] tool = "git-tag" -> {<<>>, << <<"create">>, <<"v1">> >>}
    [] tool \in {"git-merge", "git-cherry-pick"} -> {<<>>, <<KnownRef>>, <<UnknownRef>>}
    [] tool = "git-blame" -> {<<>>, <<KnownPath>>}
    [] tool = "git-bisect" -> {<<>>, << <<"start">> >>}
    [] tool = "git-dev" -> {<<>>, << <<"x">> >>}
    [] OTHER -> {<<>>}

\* One run of the client, from the command line to the process's exit.
\* The failures of the environment tried on the command line client: one
\* failing subprocess, its stderr empty, unclassified or of two classified
\* kinds.
CliErrClasses == {"empty", "other", "nothing", "auth"}
CliFaults(k) == {f \in FaultsUpTo(k) : f.at2 = 0 /\ f.err \in CliErrClasses}

\* m is what main made of the command line.
Exited(tool, fault, m) ==
  /\ Len(m.d.h.st.repo.commits) <= MaxCommits
  /\ repo' = OnDisk(m.d.h.st.repo)
  /\ request' = [name |-> tool, args |-> m.args, via |-> "cli"]
  /\ run' = [RunOf(m.d, repo, fault) EXCEPT !.asked = m.called]
  /\ response' = m.d.response
  /\ exitCode' = m.exit
  /\ pc' = "exited"
  /\ UNCHANGED <<alias, tree, job>>

CliMain ==
  /\ pc = "idle"
  /\ \E tool \in CliTools : \E argv \in CliArgv(tool) :
     \E fault \in CliFaults(IF tool \in ToolNames THEN Subprocesses(tool) ELSE 0) :
       Exited(tool, fault, Main(tool, argv, repo, fault))

\* The shell takes the exit code; the next command can be typed.
CliExit ==
  /\ pc = "exited"
  /\ pc' = "idle"
  /\ request' = NoRequest
  /\ run' = NoRun
  /\ response' = NoResponse
  /\ exitCode' = -1
  /\ alias' = NoAlias
  /\ job' = NoJob
  /\ UNCHANGED <<repo, tree>>

\* Requests of an MCP client beside the command line, none of them hit by a
\* failing subprocess.
CallToolQuiet == CallToolFrom(RegisteredTools, Messages, FALSE)

NextCli == CliMain \/ CliExit \/ CallToolQuiet \/ Deliver \/ WriteFile

SpecCli == Init /\ [][NextCli]_vars

\* ------------------------------------------------- the alias executables
\* One run of the client by an alias: the tool, the words, the exit code,
\* and the subprocesses the server started and saw fail for it.
Step(tool, argv, m) ==
  [tool |-> tool, argv |-> argv, exit |-> m.exit,
   cmds |-> m.d.h.st.cmds, failed |-> m.d.h.st.failed]

\* An alias that exits before it starts the client.
AliasQuit(code, help, r) ==
  [exit |-> code, help |-> help, steps |-> <<>>, tool |-> "",
   m |-> Quit(code, ArgsNone, r)]

\* What an alias script decides from its words: to exit at once with a
\* code (after printing its help or an error), or to start the client for
\* each entry of clients in turn: spawn(node, [mcp-cli.js, tool, ...argv]).
ExitAt(code, help) == [code |-> code, help |-> help, clients |-> <<>>]
Client(tool, argv) == [tool |-> tool, argv |-> argv]
Spawn(clients) == [code |-> 0, help |-> FALSE, clients |-> clients]

\* The client processes of an alias, one after the other: the alias exits
\* with the code of the first that exits with another code than 0, else
\* with the code of the last.  A failure of the environment hits the first.
RECURSIVE RunClients(_, _, _, _)
RECURSIVE ClientClosed(_, _, _, _)
ClientClosed(clients, fault, steps, m) ==
  IF m.exit # 0 \/ Len(clients) = 1
  THEN [exit |-> m.exit, help |-> FALSE,
        steps |-> Append(steps, Step(clients[1].tool, clients[1].argv, m)),
        tool |-> clients[1].tool, m |-> m]
  ELSE RunClients(Tail(clients), OnDisk(m.d.h.st.repo), NoFault,
                  Append(steps, Step(clients[1].tool, clients[1].argv, m)))

RunClients(clients, r, fault, steps) ==
  ClientClosed(clients, fault, steps,
               Main(clients[1].tool, clients[1].argv, r, fault))

\* args.includes('-h') || args.includes('--help')
AskedHelp(argv) == HasWord(argv, <<"-h">>) \/ HasWord(argv, <<"--help">>)

\* bin/basic/greset.js: node mcp-cli.js git-reset ...args
Greset(argv) ==
  IF AskedHelp(argv) THEN ExitAt(0, TRUE)
  ELSE Spawn(<<Client("git-reset", argv)>>)

\* args[args.indexOf(w) + 1]
RECURSIVE WordAfter(_, _)
WordAfter(argv, w) ==
  IF argv = <<>> THEN NoValue
  ELSE IF Head(argv) = w THEN At(argv, 2)
  ELSE WordAfter(Tail(argv), w)

\* createNew.toString()
BoolWord(b) == IF b THEN <<"true">> ELSE <<"false">>

\* bin/basic/gcheckout.js: node mcp-cli.js git-checkout branchName createNew
GcheckoutTo(branchName, createNew) ==
  IF ~Truthy(branchName) THEN ExitAt(1, FALSE)
  ELSE Spawn(<<Client("git-checkout", <<branchName, BoolWord(createNew)>>)>>)

Gcheckout(argv, r) ==
  IF AskedHelp(argv) THEN ExitAt(0, TRUE)
  ELSE IF HasWord(argv, <<"--list">>) THEN Spawn(<<Client("git-branch", <<>>)>>)
  ELSE IF ~r.isRepo THEN ExitAt(1, FALSE)
  ELSE IF argv = <<>> THEN ExitAt(1, FALSE)
  ELSE IF HasWord(argv, <<"-b">>) THEN GcheckoutTo(WordAfter(argv, <<"-b">>), TRUE)
  ELSE GcheckoutTo(argv[1], FALSE)

\* bin/advanced/gsync.js: gpull.js, and when it exits with 0, gstatus.js;
\* these are the aliases of git-pull and git-status, started without words.
Gsync(argv) ==
  IF AskedHelp(argv) THEN ExitAt(0, TRUE)
  ELSE Spawn(<<Client("git-pull", <<>>), Client("git-status", <<>>)>>)

Aliases == {"greset", "gcheckout", "gsync"}

\* --<mode> as the user types it.
Flag(mode) == <<"--" \o mode>>

AliasArgv(name) ==
  CASE name = "greset" ->
         {<<>>, << <<"--help">> >>, << <<"HEAD~1">> >>}
           \cup {<<Flag(m)>> : m \in ResetModes}
           \cup {<<Flag(m), <<"HEAD~1">> >> : m \in ResetModes}
    [] name = "gcheckout" ->
         {<<>>, << <<"--help">> >>, << <<"--list">> >>, <<KnownRef>>,
          << <<"-b">> >>, << <<"-b">>, <<"feature">> >>}
    [] name = "gsync" -> {<<>>, << <<"-h">> >>}
    [] OTHER -> {<<>>}

AliasScript(name, argv, r) ==
  CASE name = "greset" -> Greset(argv)
    [] name = "gcheckout" -> Gcheckout(argv, r)
    [] name = "gsync" -> Gsync(argv)
    [] OTHER -> ExitAt(1, FALSE)

AliasRuns(script, r, fault) ==
  IF script.clients = <<>> THEN AliasQuit(script.code, script.help, r)
  ELSE RunClients(script.clients, r, fault, <<>>)

AliasRun(name, argv, r, fault) == AliasRuns(AliasScript(name, argv, r), r, fault)

\* The most subprocesses the server starts for one run of the alias.
AliasSubprocesses(name) ==
  CASE name = "greset" -> Subprocesses("git-reset")
    [] name = "gcheckout" -> Subprocesses("git-checkout")
    [] name = "gsync" -> Subprocesses("git-pull")
    [] OTHER -> 0

\* x is what the alias made of its command line.
AliasExited(name, argv, fault, x) ==
  /\ Len(x.m.d.h.st.repo.commits) <= MaxCommits
  /\ repo' = OnDisk(x.m.d.h.st.repo)
  /\ request' = [name |-> x.tool, args |-> x.m.args, via |-> name]
  /\ run' = [RunOf(x.m.d, repo, fault) EXCEPT !.asked = x.m.called]
  /\ response' = x.m.d.response
  /\ exitCode' = x.exit
  /\ alias' = [name |-> name, argv |-> argv, steps |-> x.steps, help |-> x.help]
  /\ pc' = "exited"
  /\ UNCHANGED <<tree, job>>

AliasMain ==
  /\ pc = "idle"
  /\ \E name \in Aliases : \E argv \in AliasArgv(name) :
     \E fault \in CliFaults(AliasSubprocesses(name)) :
       AliasExited(name, argv, fault, AliasRun(name, argv, repo, fault))

NextAlias == AliasMain \/ CliExit \/ CallToolQuiet \/ Deliver \/ WriteFile

SpecAlias == Init /\ [][NextAlias]_vars

\* ========================================================================
\* The workflow scripts of bin/advanced (gclean, gworkflow, gbackup, gsave,
\* gdev).  They do not go through the server: each starts git itself, with
\* execSync or spawn, in the directory it was called from.
\* ------------------------------------------------ git on the script's tree
\* The branch names in the order git lists them.
FeatureBranch == "feature/login"
HotfixBranch == "hotfix/patch"
ReleaseBranch == "release/1.0"
BackupBranch == "backup"
BranchOrder ==
  <<BackupBranch, "develop", "experiment-backup", FeatureBranch, HotfixBranch,
    "main", "other", "release-backup", ReleaseBranch>>

\* The members of set S as git prints them, one per line.
Lines(S) ==
  LET Member(b) == b \in S
  IN SelectSeq(BranchOrder, Member)

\* n lines of output.
Rows(n) == [i \in 1..n |-> "line"]

\* A subprocess that ended with status 0 and printed out, leaving tree t;
\* and one that ended with another status, its stderr being err.
Did(out, t) == [ok |-> TRUE, out |-> out, tree |-> t]
Died(err, t) == [ok |-> FALSE, out |-> <<err>>, tree |-> t]

\* git branch -d refuses the branch checked out and a branch that is fully
\* merged neither in its upstream nor in HEAD.
DeleteBranch(b, t) ==
  IF b \in t.branches /\ b # t.branch
     /\ (b \in t.upstream \/ (t.branch = "main" /\ b \in t.merged))
  THEN Did(<<"Deleted branch">>,
           [t EXCEPT !.branches = @ \ {b}, !.merged = @ \ {b}, !.upstream = @ \ {b}])
  ELSE Died("error: branch not deleted", t)

\* git stash push: with nothing changed it saves nothing and ends with 0.
StashPush(t) ==
  IF t.changes = 0 THEN Did(<<"No local changes to save">>, t)
  ELSE Did(<<"Saved working directory">>,
           [t EXCEPT !.stashes = <<[id |-> t.stashed + 1, changes |-> t.changes]>> \o @,
                     !.stashed = @ + 1, !.changes = 0])

\* git stash pop: takes stash@{0}, whatever put it there.
StashPop(t) ==
  IF t.stashes = <<>> THEN Died("No stash entries found.", t)
  ELSE IF t.changes > 0 THEN Died("error: local changes would be overwritten", t)
  ELSE Did(<<"Dropped">>, [t EXCEPT !.changes = Head(t.stashes).changes,
                                    !.stashes = Tail(@)])

\* git commit: the commits of the branch are then neither in main (unless
\* it is main) nor in the upstream.
Commits(t) ==
  IF t.changes = 0 THEN Died("nothing to commit, working tree clean", t)
  ELSE Did(<<"1 file changed">>,
           [t EXCEPT !.changes = 0, !.upstream = @ \ {t.branch},
                     !.merged = IF t.branch = "main" THEN @ ELSE @ \ {t.branch}])

\* What git (or another program a script starts) does on tree t when
\* nothing goes wrong in the environment; c is the command line without the
\* name it ends with, arg that name.
GitOn(c, arg, t) ==
  CASE c = "git rev-parse --abbrev-ref HEAD" -> Did(<<t.branch>>, t)
    [] c = "git branch --show-current" -> Did(<<t.branch>>, t)
    [] c = "git rev-parse --verify" ->
         IF arg \in t.branches THEN Did(<<"hash">>, t) ELSE Died("fatal: Needed a single revision", t)
    [] c = "git status --porcelain" -> Did(Rows(t.changes), t)
    [] c = "git rev-list HEAD --count" -> Did(<<"1">>, t)
    [] c = "git branch --merged" ->
         Did(Lines({b \in t.branches : b = t.branch \/ (t.branch = "main" /\ b \in t.merged)}), t)
    [] c = "git branch -d" -> DeleteBranch(arg, t)
    [] c = "git remote prune origin --dry-run" ->
         Did(IF t.stale THEN <<"* [would prune] origin/old">> ELSE <<>>, t)
    [] c = "git remote prune origin" -> Did(<<>>, [t EXCEPT !.stale = FALSE])
    [] c = "git tag -l" -> Did(Rows(t.tags), t)
    [] c = "git tag -d" ->
         IF t.tags > 0 THEN Did(<<"Deleted tag">>, [t EXCEPT !.tags = @ - 1])
         ELSE Died("error: tag not found", t)
    [] c = "git tag -a" -> Did(<<>>, [t EXCEPT !.tags = @ + 1])
    [] c = "git stash list" -> Did(t.stashes, t)
    [] c = "git stash drop" ->
         IF t.stashes = <<>> THEN Died("No stash entries found.", t)
         ELSE Did(<<"Dropped">>, [t EXCEPT !.stashes = Tail(@)])
    [] c = "git stash push -m" -> StashPush(t)
    [] c = "git stash pop" -> StashPop(t)
    [] c = "git checkout" ->
         IF arg \in t.branches THEN Did(<<>>, [t EXCEPT !.branch = arg])
         ELSE Died("error: pathspec did not match", t)
    [] c = "git checkout -b" ->
         IF arg \in t.branches THEN Died("fatal: a branch named so already exists", t)
         ELSE Did(<<>>, [t EXCEPT !.branch = arg, !.branches = @ \cup {arg},
                                  !.merged = IF t.branch \in @ THEN @ \cup {arg} ELSE @])
    [] c = "git add .backup-metadata" -> Did(<<>>, t)
    [] c = "git add ." -> Did(<<>>, t)
    [] c \in {"git commit -m", "git commit --amend --no-edit"} -> Commits(t)
    [] c = "git pull" ->
         IF t.branch \in t.remote THEN Did(<<"Already up to date.">>, t)
         ELSE Died("There is no tracking information for the current branch.", t)
    [] c \in {"git push", "git push --force-with-lease"} ->
         IF t.branch \in t.remote
         THEN Did(<<>>, [t EXCEPT !.upstream = @ \cup {t.branch}])
         ELSE Died("fatal: The current branch has no upstream branch.", t)
    [] c \in {"git push -u origin", "git push origin"} ->
         IF arg \in t.branches
         THEN Did(<<>>, [t EXCEPT !.remote = @ \cup {arg}, !.upstream = @ \cup {arg}])
         ELSE Died("error: src refspec does not match any", t)
    [] c = "git push origin --delete" ->
         IF arg \in t.remote
         THEN Did(<<>>, [t EXCEPT !.remote = @ \ {arg}, !.upstream = @ \ {arg}])
         ELSE Died("error: unable to delete: remote ref does not exist", t)
    [] c \in {"git merge --no-ff", "git merge"} ->
         IF arg \notin t.branches THEN Died("merge: not something we can merge", t)
         ELSE Did(<<"Merge made">>,
                  [t EXCEPT !.merged = IF t.branch = "main" THEN @ \cup {arg} ELSE @,
                            !.upstream = IF arg \in t.merged /\ t.branch \in t.merged
                                         THEN @ ELSE @ \ {t.branch}])
    [] c = "gbackup" ->
         Did(<<"backup created">>, [t EXCEPT !.tags = @ + 1])
    [] OTHER -> Did(<<"output">>, t)

\* Bounds of the scripts' repository and of a piped stdout.
MaxStashes == 3
MaxTags == 2
MaxChanges == 1
MaxChunks == 2
MaxBranches == 3

\* ------------------------------------------------ a script's subprocesses
\* The state a script threads through its statements: the repository, the
\* subprocesses started so far (alone: no other was running when it was
\* started), the result of the last one, how many times the workflow was
\* entered, and the exit code.
Begin(t, env) ==
  [tree |-> t, cmds |-> <<>>, ok |-> TRUE, out |-> <<>>, env |-> env,
   runs |-> 0, exit |-> 0]

Ended(s, c, arg, alone, x) ==
  [s EXCEPT !.tree = x.tree, !.ok = x.ok, !.out = x.out,
            !.cmds = Append(@, [c |-> c, arg |-> arg, ok |-> x.ok, alone |-> alone])]

\* What the environment makes of the next subprocess of the script.
Subprocess(s, c, arg) ==
  IF s.env.at = Len(s.cmds) + 1 THEN Died(s.env.err, s.tree)
  ELSE GitOn(c, arg, s.tree)

\* execSync(command) inside try/catch: {success, output}.  The script is
\* blocked until the subprocess has ended.
executeGitCommand(s, c, arg) == Ended(s, c, arg, TRUE, Subprocess(s, c, arg))

\* result.success && result.output
Printed(x) == x.ok /\ x.out # <<>>

\* getCurrentBranch: 'main' when git rev-parse fails.
BranchOr(x) == IF x.ok THEN x ELSE [x EXCEPT !.out = <<"main">>]
getCurrentBranch(s) ==
  BranchOr(executeGitCommand(s, "git rev-parse --abbrev-ref HEAD", ""))

\* ----------------------------------------------------------- gclean.js
\* parseInt(args[keepIndex + 1]) || 5
KeepCount(argv) ==
  IF ParseInt(WordAfter(argv, <<"--keep">>)) = 0 THEN 5
  ELSE ParseInt(WordAfter(argv, <<"--keep">>))

Max(a, b) == IF a > b THEN a ELSE b

\* names.forEach(name => executeGitCommand(c + name))
RECURSIVE ForEach(_, _, _)
ForEach(s, c, names) ==
  IF names = <<>> THEN s
  ELSE ForEach(executeGitCommand(s, c, Head(names)), c, Tail(names))

\* for (i = 0; i < n; i++) executeGitCommand(c + arg)
RECURSIVE Times(_, _, _, _)
Times(s, n, c, arg) ==
  IF n = 0 THEN s ELSE Times(executeGitCommand(s, c, arg), n - 1, c, arg)

ProtectedBranches(currentBranch) == {"main", "master", "develop", "dev", currentBranch}

cleanBranches(s, dryRun, keepCount) ==
  LET Stale(x) ==
        IF Printed(x) /\ ~dryRun /\ x.env.yes
        THEN executeGitCommand(x, "git remote prune origin", "")
        ELSE x
      Pruning(x) == Stale(executeGitCommand(x, "git remote prune origin --dry-run", ""))
      Unprotected(currentBranch, b) == b \notin ProtectedBranches(currentBranch)
      Merged(currentBranch, x) ==
        LET Keeps(b) == Unprotected(currentBranch, b)
        IN IF Printed(x) /\ SelectSeq(x.out, Keeps) # <<>> /\ ~dryRun /\ x.env.yes
           THEN Pruning(ForEach(x, "git branch -d", SelectSeq(x.out, Keeps)))
           ELSE Pruning(x)
      Current(x) == Merged(x.out[1], executeGitCommand(x, "git branch --merged", ""))
  IN Current(getCurrentBranch(s))

cleanTags(s, dryRun, keepCount) ==
  LET Listed(x) ==
        IF Printed(x) /\ Len(x.out) > keepCount /\ ~dryRun /\ x.env.yes
        THEN Times(x, Len(x.out) - keepCount, "git tag -d", "oldest")
        ELSE x
  IN Listed(executeGitCommand(s, "git tag -l", ""))

cleanStashes(s, dryRun, keepCount) ==
  LET Listed(x) ==
        IF Printed(x) /\ Len(x.out) > keepCount /\ ~dryRun /\ x.env.yes
        THEN Times(x, Len(x.out) - keepCount, "git stash drop", "stash@{0}")
        ELSE x
  IN Listed(executeGitCommand(s, "git stash list", ""))

\* A sequence of commands whose results the script does not look at.
RECURSIVE Batch(_, _)
Batch(s, cs) ==
  IF cs = <<>> THEN s ELSE Batch(executeGitCommand(s, Head(cs)[1], Head(cs)[2]), Tail(cs))

optimizeRepository(s) ==
  Batch(s, << <<"git gc --aggressive --prune=now", "">>, <<"git repack -ad", "">>,
              <<"git prune", "">>, <<"git update-server-info", "">>,
              <<"git fsck --full", "">> >>)

getRepositoryStats(s) ==
  Batch(getCurrentBranch(s),
        << <<"git branch -a | wc -l", "">>, <<"git rev-list --all --count", "">>,
           <<"git tag | wc -l", "">>, <<"git stash list | wc -l", "">>,
           <<"du -sh .git", "">>, <<"find . -type f | grep -v .git | wc -l", "">> >>)

\* The three cleaners one after the other, and the optimizer when asked.
CleanAll(s, dryRun, keepBranches, keepTags, keepStashes, optimize) ==
  LET Optimized(x) == IF optimize THEN optimizeRepository(x) ELSE x
  IN Optimized(cleanStashes(cleanTags(cleanBranches(s, dryRun, keepBranches),
                                      dryRun, keepTags),
                            dryRun, keepStashes))

\* execSync('gbackup --all') stands outside any try: when it fails main
\* ends there.
BackedUp(x, dryRun, keepCount) ==
  IF ~x.ok THEN x ELSE CleanAll(x, dryRun, keepCount, keepCount, keepCount, ~dryRun)

\* The cleanup the words or the menu ask for.  op is the first word, or the
\* option the picked menu entry stands for (argv is then empty and the
\* cleaners run with their default keep counts 5, 10 and 3).
Cleanup(s, op, argv, dryRun, keepCount) ==
  CASE op = "--branches" -> cleanBranches(s, dryRun, keepCount)
    [] op = "--tags" -> cleanTags(s, dryRun, IF argv = <<>> THEN 10 ELSE keepCount)
    [] op = "--stashes" -> cleanStashes(s, dryRun, IF argv = <<>> THEN 3 ELSE keepCount)
    [] op = "--optimize" -> optimizeRepository(s)
    [] op = "--stats" -> getRepositoryStats(s)
    [] op = "--all" ->
         IF HasWord(argv, <<"--backup">>)
         THEN BackedUp(executeGitCommand(s, "gbackup", "--all"), dryRun, keepCount)
         ELSE CleanAll(s, dryRun, keepCount, IF argv = <<>> THEN 10 ELSE keepCount,
                       IF argv = <<>> THEN 3 ELSE keepCount, ~dryRun)
    [] op = "--smart" ->
         CleanAll(s, dryRun, keepCount, Max(keepCount * 2, 10), Max(keepCount - 2, 2), FALSE)
    [] op \in {"--help", "-h", "exit"} -> s
    [] OTHER -> [s EXCEPT !.exit = 1]

\* interactiveCleanup: the statistics, then the menu entry the user picks.
MenuOption(choice, yes) ==
  CASE choice = "1" -> "--branches"
    [] choice = "2" -> "--tags"
    [] choice = "3" -> "--stashes"
    [] choice = "4" -> "--optimize"
    [] choice = "5" -> IF yes THEN "--all" ELSE "exit"
    [] choice = "6" -> "--stats"
    [] OTHER -> "exit"

interactiveCleanup(s) ==
  Cleanup(getRepositoryStats(s), MenuOption(s.env.choice, s.env.yes), <<>>, FALSE, 5)

\* main of gclean.js
Gclean(argv, s) ==
  IF argv = <<>> THEN interactiveCleanup(s)
  ELSE Cleanup(s, argv[1][1], argv, HasWord(argv, <<"--dry-run">>), KeepCount(argv))

\* -------------------------------------------------------- gworkflow.js
\* getMainBranch: the first of main, master, develop that git rev-parse
\* --verify accepts, else 'main'.  The result holds the name as its output.
getMainBranch(s) ==
  LET Named(x, b) == [x EXCEPT !.out = <<b>>]
      Third(x) == Named(x, IF x.ok THEN "develop" ELSE "main")
      Second(x) ==
        IF x.ok THEN Named(x, "master")
        ELSE Third(executeGitCommand(x, "git rev-parse --verify", "develop"))
      First(x) ==
        IF x.ok THEN Named(x, "main")
        ELSE Second(executeGitCommand(x, "git rev-parse --verify", "master"))
  IN First(executeGitCommand(s, "git rev-parse --verify", "main"))

\* The branch a workflow makes for a name given on the command line.
BranchFor(prefix, w) ==
  CASE prefix = "feature/" /\ w = <<"login">> -> FeatureBranch
    [] prefix = "hotfix/"  /\ w = <<"patch">> -> HotfixBranch
    [] prefix = "release/" /\ w = <<"1.0">>   -> ReleaseBranch
    [] OTHER -> "other"

\* currentBranch.startsWith(prefix)
StartsWith(b, prefix) ==
  \/ prefix = "feature/" /\ b = FeatureBranch
  \/ prefix = "hotfix/"  /\ b = HotfixBranch
  \/ prefix = "release/" /\ b = ReleaseBranch

createFeatureWorkflow(s, featureName) ==
  LET featureBranch == BranchFor("feature/", featureName)
      Status(x) ==
        IF Printed(x)
        THEN Batch(x, << <<"git add .", "">>, <<"git commit -m", "feat: initial commit">>,
                         <<"git push", "">> >>)
        ELSE x
      Tracked(x) ==
        Status(executeGitCommand(executeGitCommand(x, "git push -u origin", featureBranch),
                                 "git status --porcelain", ""))
      Created(x) ==
        IF ~x.ok THEN Tracked(executeGitCommand(x, "git checkout", featureBranch))
        ELSE Tracked(x)
      Main_(x) ==
        Created(executeGitCommand(
                  Batch(x, << <<"git checkout", x.out[1]>>, <<"git pull", "">> >>),
                  "git checkout -b", featureBranch))
  IN Main_(getMainBranch(s))

\* Steps 2 to 5 of finishFeatureWorkflow: not one result is looked at.
FinishFeature(x, currentBranch, mainBranch) ==
  Batch(x, << <<"git fetch origin", mainBranch>>, <<"git rebase", "origin/main">>,
              <<"git push", "">>,
              <<"git checkout", mainBranch>>, <<"git pull", "">>,
              <<"git merge --no-ff", currentBranch>>, <<"git push", "">>,
              <<"git branch -d", currentBranch>>,
              <<"git push origin --delete", currentBranch>> >>)

finishFeatureWorkflow(s) ==
  LET Status(x, currentBranch, mainBranch) ==
        IF Printed(x)
        THEN FinishFeature(Batch(x, << <<"git add .", "">>,
                                       <<"git commit -m", "feat: finalize">> >>),
                           currentBranch, mainBranch)
        ELSE FinishFeature(x, currentBranch, mainBranch)
      Main_(x, currentBranch) ==
        IF ~StartsWith(currentBranch, "feature/") THEN x
        ELSE Status(executeGitCommand(x, "git status --porcelain", ""),
                    currentBranch, x.out[1])
      Current(x) == Main_(getMainBranch(x), x.out[1])
  IN Current(getCurrentBranch(s))

createHotfixWorkflow(s, hotfixName) ==
  LET Main_(x) ==
        Batch(x, << <<"gbackup", "--emergency">>, <<"git checkout", x.out[1]>>,
                    <<"git pull", "">>,
                    <<"git checkout -b", BranchFor("hotfix/", hotfixName)>> >>)
  IN Main_(getMainBranch(s))

\* Steps 2 to 5 of finishHotfixWorkflow.
FinishHotfix(x, currentBranch, mainBranch) ==
  LET Develop(y) ==
        IF y.ok
        THEN Batch(y, << <<"git checkout", "develop">>,
                         <<"git merge --no-ff", currentBranch>>, <<"git push", "">>,
                         <<"git checkout", mainBranch>>,
                         <<"git branch -d", currentBranch>> >>)
        ELSE executeGitCommand(y, "git branch -d", currentBranch)
  IN Develop(executeGitCommand(
       Batch(x, << <<"git checkout", mainBranch>>,
                   <<"git merge --no-ff", currentBranch>>, <<"git push", "">>,
                   <<"git tag -a", "hotfix">>, <<"git push origin --tags", "">> >>),
       "git rev-parse --verify", "develop"))

finishHotfixWorkflow(s) ==
  LET Status(x, currentBranch, mainBranch) ==
        IF Printed(x)
        THEN FinishHotfix(Batch(x, << <<"git add .", "">>,
                                      <<"git commit -m", "fix: hotfix">> >>),
                          currentBranch, mainBranch)
        ELSE FinishHotfix(x, currentBranch, mainBranch)
      Main_(x, currentBranch) ==
        IF ~StartsWith(currentBranch, "hotfix/") THEN x
        ELSE Status(executeGitCommand(x, "git status --porcelain", ""),
                    currentBranch, x.out[1])
      Current(x) == Main_(getMainBranch(x), x.out[1])
  IN Current(getCurrentBranch(s))

createReleaseWorkflow(s, version, baseBranch) ==
  LET Branched(x) ==
        IF x.env.pkg THEN executeGitCommand(x, "npm version", "--no-git-tag-version")
        ELSE x
  IN Branched(Batch(getMainBranch(s),
                    << <<"gbackup", "--release">>, <<"git checkout", baseBranch>>,
                       <<"git pull", "">>,
                       <<"git checkout -b", BranchFor("release/", version)>> >>))

syncWorkflow(s, remoteName) ==
  LET Restored(x) == executeGitCommand(x, "git push", "")
      Rebased(x, hasStash) ==
        IF ~x.ok /\ x.out = <<"conflict">> THEN x
        ELSE IF hasStash THEN Restored(executeGitCommand(x, "git stash pop", ""))
        ELSE Restored(x)
      Fetched(x, currentBranch, hasStash) ==
        Rebased(executeGitCommand(executeGitCommand(x, "git fetch", remoteName),
                                  "git rebase", currentBranch), hasStash)
      Status(x, currentBranch) ==
        IF Printed(x)
        THEN Fetched(executeGitCommand(x, "git stash push -m", "Auto-stash for sync"),
                     currentBranch, TRUE)
        ELSE Fetched(x, currentBranch, FALSE)
      Current(x) == Status(executeGitCommand(x, "git status --porcelain", ""), x.out[1])
  IN Current(getCurrentBranch(s))

\* options.branch || 'develop', options.remote || 'origin'
OptionOr(argv, w, default) ==
  IF HasWord(argv, w) /\ Truthy(WordAfter(argv, w)) THEN WordAfter(argv, w)[1]
  ELSE default

\* main of gworkflow.js: options.dryRun is set and never read.
Gworkflow(argv, s) ==
  IF argv = <<>> \/ argv[1] \in {<<"--help">>, <<"-h">>} THEN s
  ELSE CASE argv[1] = <<"feature">> ->
              IF Truthy(At(argv, 2)) THEN createFeatureWorkflow(s, argv[2]) ELSE s
         [] argv[1] = <<"feature-finish">> -> finishFeatureWorkflow(s)
         [] argv[1] = <<"hotfix">> ->
              IF Truthy(At(argv, 2)) THEN createHotfixWorkflow(s, argv[2]) ELSE s
         [] argv[1] = <<"hotfix-finish">> -> finishHotfixWorkflow(s)
         [] argv[1] = <<"release">> ->
              IF Truthy(At(argv, 2))
              THEN createReleaseWorkflow(s, argv[2], OptionOr(argv, <<"--branch">>, "develop"))
              ELSE s
         [] argv[1] = <<"sync">> -> syncWorkflow(s, OptionOr(argv, <<"--remote">>, "origin"))
         [] argv[1] = <<"review-prep">> ->
              Batch(s, << <<"git add .", "">>, <<"git commit --amend --no-edit", "">>,
                          <<"git push --force-with-lease", "">> >>)
         [] OTHER -> [s EXCEPT !.exit = 1]

\* ----------------------------------------------------------- gbackup.js
\* fs.writeFileSync('.backup-metadata'): one more file differs from HEAD.
WriteMetadata(x) == [x EXCEPT !.tree.changes = @ + 1]

\* The result of a backup function: {success}.
Outcome_(x, success) == [x EXCEPT !.ok = success]

\* name || 'backup-<branch>-<timestamp>': a name made from the time is one
\* no branch has yet.
createBranchBackup(s, name) ==
  LET Returned(x, stashed) ==
        IF stashed THEN Outcome_(executeGitCommand(x, "git stash pop", ""), TRUE)
        ELSE Outcome_(x, TRUE)
      Branched(x, currentBranch, stashed) ==
        IF x.ok
        THEN Returned(executeGitCommand(
                        Batch(WriteMetadata(x),
                              << <<"git add .backup-metadata", "">>,
                                 <<"git commit -m", "Backup">> >>),
                        "git checkout", currentBranch),
                      stashed)
        ELSE Outcome_(x, FALSE)
      Status(x, currentBranch) ==
        IF Printed(x)
        THEN Branched(executeGitCommand(
                        executeGitCommand(x, "git stash push -m", "Auto-stash for backup"),
                        "git checkout -b", name),
                      currentBranch, TRUE)
        ELSE Branched(executeGitCommand(x, "git checkout -b", name), currentBranch, FALSE)
      Current(x) == Status(executeGitCommand(x, "git status --porcelain", ""), x.out[1])
  IN Current(getCurrentBranch(s))

createTagBackup(s, name) ==
  executeGitCommand(getCurrentBranch(s), "git tag -a", name)

createStashBackup(s) ==
  LET Status(x) ==
        IF ~Printed(x) THEN Outcome_(x, FALSE)
        ELSE executeGitCommand(x, "git stash push -m", "Backup stash")
      Current(x) == Status(executeGitCommand(x, "git status --porcelain", ""))
  IN Current(getCurrentBranch(s))

createRemoteBackup(s, name) ==
  LET Local(x) ==
        IF ~x.ok THEN x ELSE executeGitCommand(x, "git push origin", name)
      Current(x) == Local(createBranchBackup(x, name))
  IN Current(getCurrentBranch(s))

listBackups(s) ==
  Batch(s, << <<"git branch -a | grep backup", "">>, <<"git tag -l *backup*", "">>,
              <<"git stash list", "">> >>)

\* smartBackup: the strategy follows from the status and the commit count.
smartBackup(s) ==
  LET Current(x, hasChanges, commitCount) ==
        IF hasChanges THEN createBranchBackup(createStashBackup(x), BackupBranch)
        ELSE IF commitCount > 0
        THEN createTagBackup(createBranchBackup(x, BackupBranch), BackupBranch)
        ELSE createTagBackup(x, BackupBranch)
      Counted(x, hasChanges) ==
        Current(getCurrentBranch(x), hasChanges, IF x.ok THEN 1 ELSE 0)
      Status(x) == Counted(executeGitCommand(x, "git rev-list HEAD --count", ""), Printed(x))
  IN Status(executeGitCommand(s, "git status --porcelain", ""))

\* if (executeGitCommand('git status --porcelain').output) createStashBackup()
StashIfChanged(x) ==
  LET Status(y) == IF y.out # <<>> THEN createStashBackup(y) ELSE y
  IN Status(executeGitCommand(x, "git status --porcelain", ""))

\* customName: the word after --name, else null.
CustomName(argv, default) ==
  IF HasWord(argv, <<"--name">>) /\ Truthy(WordAfter(argv, <<"--name">>))
  THEN WordAfter(argv, <<"--name">>)[1]
  ELSE default

\* main of gbackup.js
Gbackup(argv, s) ==
  IF argv = <<>> THEN smartBackup(s)
  ELSE CASE argv[1] \in {<<"--help">>, <<"-h">>} -> s
         [] argv[1] = <<"--branch">> -> createBranchBackup(s, CustomName(argv, BackupBranch))
         [] argv[1] = <<"--tag">> -> createTagBackup(s, CustomName(argv, BackupBranch))
         [] argv[1] = <<"--stash">> -> createStashBackup(s)
         [] argv[1] = <<"--remote">> -> createRemoteBackup(s, CustomName(argv, BackupBranch))
         [] argv[1] = <<"--all">> ->
              StashIfChanged(createTagBackup(
                createBranchBackup(s, CustomName(argv, BackupBranch)),
                CustomName(argv, BackupBranch)))
         [] argv[1] = <<"--emergency">> ->
              StashIfChanged(createRemoteBackup(
                createTagBackup(createBranchBackup(s, CustomName(argv, BackupBranch)),
                                CustomName(argv, BackupBranch)),
                CustomName(argv, BackupBranch)))
         [] argv[1] = <<"--list">> -> listBackups(s)
         [] argv[1] = <<"--experiment">> ->
              createBranchBackup(s, CustomName(argv, "experiment-backup"))
         [] argv[1] = <<"--release">> ->
              createRemoteBackup(createTagBackup(s, CustomName(argv, "release-backup")),
                                 CustomName(argv, "release-backup"))
         [] OTHER -> [s EXCEPT !.exit = 1]

\* The words a script is started with.
OptionWords ==
  {<<"--dry-run">>, <<"--keep">>, <<"--backup">>, <<"--wip">>, <<"--push">>,
   <<"--continue">>, <<"--sync">>, <<"--name">>, <<"--branches">>, <<"--tags">>,
   <<"--stashes">>, <<"--optimize">>, <<"--stats">>, <<"--all">>, <<"--smart">>,
   <<"--help">>, <<"--branch">>, <<"--tag">>, <<"--stash">>, <<"--remote">>,
   <<"--emergency">>, <<"--list">>, <<"--experiment">>, <<"--release">>}

\* ------------------------------------------------- gsave.js and gdev.js
\* runCommand: spawn(command) and the close event that calls onSuccess or
\* onError; alone tells whether every subprocess the script started before
\* had ended when this one was started.  A command that cannot be started
\* gives the error event, whose listener ends the script with code 1.
\* Once the script has exited nothing more is started.
NotStarted(x) == ~x.ok /\ x.out = <<"ENOENT">>
Exit1(x) == [x EXCEPT !.exit = 1]
Closed(x) == IF NotStarted(x) THEN Exit1(x) ELSE x

\* spawn with stdio 'pipe' and no listener that exits.
spawnPiped(s, c, arg) == Ended(s, c, arg, TRUE, Subprocess(s, c, arg))

runCommand(s, c, arg, alone) ==
  IF s.exit # 0 THEN s ELSE Closed(Ended(s, c, arg, alone, Subprocess(s, c, arg)))

\* executeWorkflow of gsave.js, entered once more: git add ., then git
\* commit, then git push when asked.
executeWorkflow(s, shouldPush, alone) ==
  LET Committed(x) ==
        IF x.ok /\ shouldPush THEN runCommand(x, "git push", "", alone) ELSE x
      Added(x) ==
        IF ~x.ok THEN Exit1(x)
        ELSE Committed(runCommand(x, "git commit -m", "message", alone))
  IN Added(runCommand([s EXCEPT !.runs = @ + 1], "git add .", "", alone))

\* The data listener of a piped stdout is called once per chunk that
\* arrives; here it enters the workflow.
RECURSIVE PerChunk(_, _, _, _)
PerChunk(s, chunks, shouldPush, alone) ==
  IF chunks = 0 \/ s.exit # 0 THEN s
  ELSE PerChunk(executeWorkflow(s, shouldPush, alone), chunks - 1, shouldPush, FALSE)

\* How many chunks the stdout of subprocess x arrives in: none when it
\* printed nothing.
Chunks(x) == IF x.ok /\ x.out # <<>> THEN x.env.chunks ELSE 0

\* getCurrentBranch(callback) of gsave.js: the callback runs for every data
\* chunk, and with 'main' when git cannot be started.
Wip(x, shouldPush) ==
  IF NotStarted(x) THEN executeWorkflow(x, shouldPush, TRUE)
  ELSE PerChunk(x, Chunks(x), shouldPush, TRUE)

\* The script of gsave.js.
Gsave(argv, s) ==
  IF AskedHelp(argv) THEN s
  ELSE IF HasWord(argv, <<"--wip">>)
  THEN Wip(spawnPiped(s, "git branch --show-current", ""), HasWord(argv, <<"--push">>))
  ELSE executeWorkflow(s, HasWord(argv, <<"--push">>), TRUE)

\* showStatus and showBranches of gdev.js.
showStatus(x) == runCommand(x, "git status --short", "", TRUE)
showBranches(x) == runCommand(x, "git branch -a", "", TRUE)

\* Commands chained by onSuccess: each starts when the one before closed
\* with code 0; nothing follows a failure.
RECURSIVE Chain(_, _)
RECURSIVE ChainNext(_, _)
ChainNext(x, cs) == IF x.ok THEN Chain(x, cs) ELSE x
Chain(s, cs) ==
  IF cs = <<>> THEN s
  ELSE ChainNext(runCommand(s, Head(cs)[1], Head(cs)[2], TRUE), Tail(cs))

\* gdev --sync, once per data chunk of git branch --show-current.
Sync(s, currentBranch) ==
  IF currentBranch \in {"main", "master"}
  THEN Chain(s, << <<"git pull", "">>, <<"git status --short", "">> >>)
  ELSE Chain(s, << <<"git checkout", "main">>, <<"git pull", "">>,
                   <<"git checkout", currentBranch>>, <<"git merge", "main">>,
                   <<"git status --short", "">> >>)

RECURSIVE SyncPerChunk(_, _, _)
SyncPerChunk(s, chunks, currentBranch) ==
  IF chunks = 0 \/ s.exit # 0 THEN s
  ELSE SyncPerChunk(Sync([s EXCEPT !.runs = @ + 1], currentBranch), chunks - 1, currentBranch)

\* gdev <branch-name>
NewBranch(s, branchName) ==
  LET Pulled(x) ==
        Chain(x, << <<"git checkout -b", branchName>>, <<"git status --short", "">> >>)
      Switched(x) ==
        IF ~x.ok THEN x ELSE Pulled(runCommand(x, "git pull", "", TRUE))
  IN Switched(runCommand(s, "git checkout", "main", TRUE))

\* The default session: git status is started and not waited for; a timer
\* of one second later git pull is started, and when it closed, with
\* whatever code, the branches are listed.
Session(s) ==
  LET Status(x) == showBranches(runCommand(x, "git pull", "", ~x.env.slow))
  IN Status(showStatus(s))

\* args[0].startsWith('--')
IsOption(w) == w \in OptionWords

\* The script of gdev.js.
Gdev(argv, s) ==
  LET Branch(x) == SyncPerChunk(x, Chunks(x), x.out[1])
  IN IF AskedHelp(argv) THEN s
     ELSE IF HasWord(argv, <<"--continue">>)
     THEN showStatus(runCommand(s, "git stash pop", "", TRUE))
     ELSE IF HasWord(argv, <<"--sync">>)
     THEN Branch(runCommand(s, "git branch --show-current", "", TRUE))
     ELSE IF argv # <<>> /\ ~IsOption(argv[1]) THEN NewBranch(s, argv[1][1])
     ELSE Session(s)

\* ------------------------------------------------ running the scripts
Scripts == {"gclean", "gworkflow", "gbackup", "gsave", "gdev"}

CleanOptions ==
  {<<"--branches">>, <<"--tags">>, <<"--stashes">>, <<"--optimize">>, <<"--stats">>,
   <<"--all">>, <<"--smart">>}

Workflows ==
  {<<"feature">>, <<"feature-finish">>, <<"hotfix">>, <<"hotfix-finish">>,
   <<"release">>, <<"sync">>, <<"review-prep">>}

WorkflowName(w) ==
  CASE w = <<"feature">> -> <<"login">>
    [] w = <<"hotfix">> -> <<"patch">>
    [] w = <<"release">> -> <<"1.0">>
    [] OTHER -> <<>>

ScriptArgv(name) ==
  CASE name = "gclean" ->
         {<<>>, << <<"--help">> >>, << <<"--dry-run">> >>,
          << <<"--all">>, <<"--backup">>, <<"--dry-run">> >>}
           \cup {<<o>> : o \in CleanOptions}
           \cup {<<o, <<"--dry-run">> >> : o \in CleanOptions}
           \cup {<<o, <<"--keep">>, k>> : o \in {<<"--stashes">>, <<"--tags">>},
                                          k \in {<<"1">>, <<"2">>}}
    [] name = "gworkflow" ->
         {<<>>, << <<"unknown">> >>}
           \cup {IF WorkflowName(w) = <<>> THEN <<w>> ELSE <<w, WorkflowName(w)>> :
                   w \in Workflows}
           \cup {IF WorkflowName(w) = <<>> THEN <<w, <<"--dry-run">> >>
                 ELSE <<w, WorkflowName(w), <<"--dry-run">> >> : w \in Workflows}
    [] name = "gbackup" ->
         {<<>>, << <<"--help">> >>, << <<"--branch">> >>,
          << <<"--branch">>, <<"--name">>, <<"backup">> >>,
          << <<"--tag">> >>, << <<"--stash">> >>, << <<"--remote">> >>,
          << <<"--all">> >>, << <<"--list">> >>, << <<"--unknown">> >>}
    [] name = "gsave" ->
         {<<>>, << <<"-h">> >>, << <<"--wip">> >>, << <<"--wip">>, <<"--push">> >>,
          << <<"--backup">> >>, << <<"message">> >>, << <<"--push">> >>}
    [] name = "gdev" ->
         {<<>>, << <<"-h">> >>, << <<"--continue">> >>, << <<"--sync">> >>,
          << <<FeatureBranch>> >>}
    [] OTHER -> {<<>>}

\* The most subprocesses one run of the script is made to fail among.
ScriptSubprocesses(name) ==
  CASE name = "gclean" -> 4
    [] name = "gworkflow" -> 10
    [] name = "gbackup" -> 7
    [] name = "gsave" -> 3
    [] name = "gdev" -> 3
    [] OTHER -> 0

\* The choices of the environment that matter to the script run with
\* words argv.
ScriptEnvs(name, argv) ==
  LET Failing(errs) == {[Calm EXCEPT !.at = k, !.err = e] :
                          k \in 1..ScriptSubprocesses(name), e \in errs}
  IN CASE name = "gclean" ->
            IF argv = <<>>
            THEN {[Calm EXCEPT !.yes = y, !.choice = c] :
                    y \in BOOLEAN, c \in {"0", "1", "2", "3", "4", "5", "6"}}
            ELSE {Calm, [Calm EXCEPT !.yes = FALSE]} \cup Failing({"fatal"})
       [] name = "gworkflow" ->
            {Calm} \cup Failing({"fatal"})
              \cup (IF argv # <<>> /\ argv[1] = <<"release">>
                    THEN {[Calm EXCEPT !.pkg = TRUE]} ELSE {})
              \cup (IF argv # <<>> /\ argv[1] = <<"sync">>
                    THEN {[Calm EXCEPT !.at = 5, !.err = "conflict"]} ELSE {})
       [] name = "gbackup" -> {Calm} \cup Failing({"fatal"})
       [] name = "gsave" ->
            {[Calm EXCEPT !.chunks = n] : n \in 1..MaxChunks}
              \cup Failing({"fatal", "ENOENT"})
       [] name = "gdev" ->
            {[Calm EXCEPT !.chunks = n, !.slow = b] : n \in 1..MaxChunks, b \in BOOLEAN}
              \cup Failing({"fatal", "ENOENT"})
       [] OTHER -> {Calm}

ScriptRun(name, argv, s) ==
  CASE name = "gclean" -> Gclean(argv, s)
    [] name = "gworkflow" -> Gworkflow(argv, s)
    [] name = "gbackup" -> Gbackup(argv, s)
    [] name = "gsave" -> Gsave(argv, s)
    [] name = "gdev" -> Gdev(argv, s)
    [] OTHER -> s

\* The script has run to its end; x is the state it ended in.
ScriptExited(name, argv, env, x) ==
  /\ x.tree.stashed <= MaxStashes
  /\ x.tree.tags <= MaxTags
  /\ x.tree.changes <= MaxChanges
  /\ Cardinality(x.tree.branches) <= MaxBranches
  /\ tree' = x.tree
  /\ job' = [name |-> name, argv |-> argv, cmds |-> x.cmds, before |-> tree,
             runs |-> x.runs, env |-> env]
  /\ exitCode' = x.exit
  /\ pc' = "exited"
  /\ UNCHANGED <<repo, request, run, response, alias>>

\* A script is started from the shell, once in a session.  gbackup names
\* its branch after the time unless told a name: a name no branch has yet.
ScriptMain ==
  /\ pc = "idle"
  /\ \E name \in Scripts : \E argv \in ScriptArgv(name) : \E env \in ScriptEnvs(name, argv) :
       /\ name = "gbackup" /\ ~HasWord(argv, <<"--name">>) => BackupBranch \notin tree.branches
       /\ ScriptExited(name, argv, env, ScriptRun(name, argv, Begin(tree, env)))

\* The git commands the user types before starting a script.
UserCommands ==
  {[c |-> "git stash push -m", arg |-> "mine"],
   [c |-> "git tag -a", arg |-> "v1"],
   [c |-> "git checkout -b", arg |-> FeatureBranch],
   [c |-> "git checkout", arg |-> "main"],
   [c |-> "git checkout", arg |-> FeatureBranch],
   [c |-> "git push -u origin", arg |-> FeatureBranch],
   [c |-> "git commit -m", arg |-> "work"]}

\* The user, before the script: edits a tracked file; types a git command
\* that changes the clone; or someone deletes on origin a branch this clone
\* still tracks.
Work ==
  /\ pc = "idle"
  /\ \/ tree.changes < MaxChanges /\ tree' = [tree EXCEPT !.changes = @ + 1]
     \/ \E u \in UserCommands :
          LET x == GitOn(u.c, u.arg, tree)
          IN /\ x.ok /\ x.tree # tree
             /\ x.tree.stashed < MaxStashes /\ x.tree.tags < MaxTags
             /\ tree' = x.tree
     \/ ~tree.stale /\ tree' = [tree EXCEPT !.stale = TRUE]
  /\ UNCHANGED <<repo, pc, request, run, response, exitCode, alias, job>>

NextScript == ScriptMain \/ Work

SpecScript == Init /\ [][NextScript]_vars

\* ================================================================ claims
\* Vocabulary of the claims, over the request being answered.
Ran(c) == \E i \in 1..Len(run.cmds) : run.cmds[i].c = c
FailedCommand(c) == \E i \in 1..Len(run.failed) : run.cmds[run.failed[i].at].c = c
FailureOf(c) == CHOOSE f \in {run.failed[i] : i \in 1..Len(run.failed)} : run.cmds[f.at].c = c
LastFailed == run.cmds[run.failed[Len(run.failed)].at].c
Answered(name) == pc = "responded" /\ request.name = name
FailureAnswer == response.isError \/ response.payload.isError

NotRepoIndicator(text) ==
  \/ Includes(text, "Not a git repository")
  \/ Includes(text, "not a git repository")
  \/ Includes(text, "not a Git repository")

Warns(text) == Includes(text, "DESTRUCTIVE") \/ Includes(text, "WARNING")

C2_NotARepositoryReported ==
  pc = "responded" /\ request.name \in RegisteredTools /\ run.reached
    /\ ~run.before.isRepo =>
      /\ ~run.thrown
      /\ run.result.isError
      /\ NotRepoIndicator(run.result.text)

\* merge outside a repository, with a branch named: the probe's promise is
\* not awaited, and the failure reported is that the branch does not exist.
C2_MergeOutsideRepository ==
  /\ Answered("git-merge")
  /\ ~run.before.isRepo /\ ~run.faulted
  /\ request.args.branch = KnownRef
  /\ run.result.isError
  /\ ~NotRepoIndicator(run.result.text)
  /\ HasLit(run.result.text, T_MergeNoBranch)

\* C3: the response's failure flag agrees with the operation's outcome: the
\* response is marked isError if and only if the handler's result has its
\* error flag set or an exception was raised.
C3_FlagAgreesWithOutcome ==
  pc = "responded" => (response.isError <=> (run.thrown \/ run.result.isError))

\* status outside a repository: the result is an error, the response is not
\* marked.
C3_FailureResultUnmarked ==
  /\ Answered("git-status")
  /\ ~run.thrown /\ run.result.isError
  /\ ~response.isError

\* C4: a command line run of a registered operation exits with code 0 when
\* the operation succeeded and with a non-zero code when it failed, a failure
\* result answered by the server included.
C4_ExitCodeTellsOutcome ==
  pc = "exited" /\ request.name \in RegisteredTools =>
    (exitCode = 0 <=> (run.asked /\ ~run.thrown /\ ~run.result.isError))

\* git-commit typed with a message and nothing staged: the server answers
\* the no-staged-changes failure and the client exits with 0.
C4_FailedCommitExitsZero ==
  /\ pc = "exited" /\ request.name = "git-commit"
  /\ run.asked /\ ~run.faulted
  /\ run.result.isError /\ HasLit(run.result.text, T_NoStaged)
  /\ exitCode = 0

StepCommands == {"git add .", "git commit -m", "git push", "git pull"}

StepLine(name, c) ==
  CASE c = "git add ." -> T_FlowStep1
    [] c = "git commit -m" -> T_FlowStep2
    [] c = "git pull" -> T_SyncStep1
    [] c = "git push" -> IF name = "git-flow" THEN T_FlowStep3 ELSE T_SyncStep2

C6_FailedStepIdentified ==
  /\ pc = "responded" /\ request.name \in {"git-flow", "git-sync"}
  /\ run.result.isError /\ run.failed # <<>> /\ LastFailed \in StepCommands
  => \E i \in 1..Len(run.result.text) :
       run.result.text[i] \in {CmdLine(LastFailed),
                               Lit(StepLine(request.name, LastFailed))}

\* The push step of flow failed with an unclassified stderr: the result is
\* the failure prefix and that stderr, the same text a failing add or commit
\* gives.
C6_PushFailureUnnamed ==
  /\ Answered("git-flow")
  /\ run.failed # <<>> /\ LastFailed = "git push"
  /\ run.result.isError
  /\ run.result.text = <<Lit(T_FlowFailed), StderrOf("other")>>

\* C7: commit on a repository with the empty string as message is answered
\* with the message-required failure whatever is staged, and git commit is
\* not run; a message of blanks only gets the handler's own empty-message
\* failure, git commit not run either.
C7_EmptyMessageRefused ==
  Answered("git-commit") /\ run.before.isRepo =>
    /\ request.args.message = MsgEmpty =>
         /\ FailureAnswer
         /\ response.payload.text = <<Lit(T_MessageRequired)>>
         /\ run.cmds = <<>>
         /\ repo = run.before
    /\ request.args.message = MsgBlank =>
         /\ FailureAnswer
         /\ ~Ran("git commit -m")
         /\ repo = run.before
         /\ ~run.faulted => response.payload.text = <<Lit(T_CommitEmpty)>>

\* commit with the empty message on a repository with staged changes.
C7_EmptyMessageWithStaged ==
  /\ Answered("git-commit")
  /\ run.before.isRepo /\ StagedCount(run.before) > 0
  /\ request.args.message = MsgEmpty
  /\ response.isError

\* C8: add-all on a repository whose work tree is clean never runs git add;
\* when no subprocess fails it returns the success result with the
\* nothing-to-add message, and the repository is left as it was.
C8_CleanTreeNothingAdded ==
  Answered("git-add-all") /\ run.before.isRepo /\ StatusCount(run.before) = 0 =>
    /\ ~Ran("git add .")
    /\ repo = run.before
    /\ run.failed = <<>> =>
         /\ ~run.thrown /\ ~run.result.isError
         /\ run.result.text = <<Lit(T_NoChangesToAdd)>>

\* add-all answered on a clean repository, no subprocess having failed.
C8_CleanTreeAnswered ==
  /\ Answered("git-add-all")
  /\ run.before.isRepo /\ StatusCount(run.before) = 0
  /\ run.failed = <<>>
  /\ Ran("git status --porcelain")
  /\ ~run.result.isError

\* C9 (as the code has it): the result of reset carries the warning about
\* destructive changes exactly when the mode is --help or -h, where it is the
\* help text; reset with mode hard and a target that succeeds answers
\* "Successfully reset repository (hard) to <target>" with no warning.
C9_WarningOnlyInHelp ==
  Answered("git-reset") =>
    /\ Warns(run.result.text) <=> request.args.mode \in {<<"--help">>, <<"-h">>}
    /\ request.args.mode = <<"hard">> /\ request.args.target # NoValue
         /\ ~run.result.isError =>
           /\ SubSeq(run.result.text, 1, 4) =
                <<Lit(T_ResetDone), Lit("hard"), Lit(T_ResetTo),
                  Lit(request.args.target[1])>>
           /\ StatusCount(repo) = 0

\* A hard reset to HEAD~1 went through and discarded changes of the work
\* tree.
C9_HardResetDone ==
  /\ Answered("git-reset")
  /\ request.args.mode = <<"hard">> /\ request.args.target = <<"HEAD~1">>
  /\ ~run.result.isError
  /\ StatusCount(run.before) > 0 /\ StatusCount(repo) = 0
  /\ Len(repo.commits) < Len(run.before.commits)

\* C9 as stated: reset with mode hard and a target produces a result whose
\* text warns that the change is destructive.
C9_HardResetWarns ==
  Answered("git-reset") /\ request.args.mode = <<"hard">>
    /\ request.args.target # NoValue => Warns(run.result.text)

\* C10: requests run one after another on the same directory, nothing going
\* wrong in the environment.  On a fresh repository with one new file
\* add-all reports exactly one file staged; commit with a message m on staged
\* changes succeeds, reports the number of files and records m; log(1)
\* returns exactly one entry, the last commit's message; status lists the
\* pending changes.
FreshWithOneFile(r) ==
  r.isRepo /\ r.commits = <<>> /\ r.unstaged = 1 /\ r.staged = 0 /\ r.both = 0

C10_ScenarioReflectsState ==
  pc = "responded" /\ ~run.faulted /\ run.before.isRepo =>
    /\ request.name = "git-add-all" /\ FreshWithOneFile(run.before) =>
         /\ ~run.result.isError
         /\ run.result.text =
              <<Lit(T_AddedPrefix), Num(1), Lit(T_AddedSuffix), FileLine(1)>>
         /\ StagedCount(repo) = 1 /\ repo.unstaged = 0
    /\ request.name = "git-commit" /\ StagedCount(run.before) > 0
         /\ request.args.message \notin {NoValue, MsgEmpty, MsgBlank} =>
           /\ ~run.thrown /\ ~run.result.isError
           /\ SubSeq(run.result.text, 1, 4) =
                <<Lit(T_CommittedPrefix), Num(StagedCount(run.before)),
                  Lit(T_CommittedWith), Str(request.args.message)>>
           /\ repo.commits = Append(run.before.commits, request.args.message)
    /\ request.name = "git-log" /\ request.args.maxCount = 1
         /\ run.before.commits # <<>> =>
           /\ ~run.result.isError
           /\ run.result.text = <<Entry(run.before.commits[Len(run.before.commits)])>>
    /\ request.name = "git-status" =>
         /\ ~run.result.isError
         /\ HasLit(run.result.text, T_RepoClean) <=> StatusCount(run.before) = 0
         /\ \A i \in 1..StatusCount(run.before) :
              \E j \in 1..Len(run.result.text) : run.result.text[j] = FileLine(i)

\* commit with a message that ends in a backslash, one file staged, nothing
\* wrong in the environment: the shell refuses the command and no commit is
\* made.
C10_BackslashCommitFails ==
  /\ Answered("git-commit")
  /\ ~run.faulted /\ run.before.isRepo /\ StagedCount(run.before) = 1
  /\ request.args.message = MsgBsEnd
  /\ run.result.isError
  /\ repo.commits = run.before.commits

\* ------------------------------------------------------------------ C11
\* C11: every caller-supplied value is escaped before it enters the command
\* line, so the shell runs exactly one git command and takes no caller text
\* as shell syntax: every command line issued for a request parses as one
\* command without expansion, second command or syntax error.
C11_OneCommandNoShellSyntax ==
  \A i \in 1..Len(run.cmds) : ShellWords(run.cmds[i].arg).status = "ok"

\* git diff was issued with the target main;a and the shell ended the git
\* command at the semicolon.
C11_DiffTargetRunsSecondCommand ==
  /\ pc = "responded"
  /\ request.name = "git-diff"
  /\ request.args.target = RefThenCommand
  /\ \E i \in 1..Len(run.cmds) :
       /\ run.cmds[i].c = "git diff"
       /\ run.cmds[i].arg = RefThenCommand
       /\ ShellWords(run.cmds[i].arg).status = "second"

\* ------------------------------------------------------------------ C12
\* The subprocesses of a request still in flight when its i-th subprocess
\* is started: a subprocess started without await has not been waited for,
\* and its exit cannot be seen before the handler next yields, which is
\* after the next subprocess has been started.
InFlightAtStart(cmds, i) == {j \in 1..i : j = i \/ ~cmds[j].awaited}

\* The subprocesses of a request nothing has waited for when the handler
\* returns its result.
NotWaitedFor(cmds) == {j \in 1..Len(cmds) : ~cmds[j].awaited}

\* C12: the server issues one subprocess at a time, never two in flight
\* together, and a response is sent only after every subprocess started for
\* the request has completed.
C12_OneSubprocessAtATime ==
  /\ \A i \in 1..Len(run.cmds) : Cardinality(InFlightAtStart(run.cmds, i)) = 1
  /\ pc = "responded" => NotWaitedFor(run.cmds) = {}

\* git-merge in a repository: the repository check is started without await
\* and git rev-parse --verify is started while it is in flight.
C12_MergeStartsTwoTogether ==
  /\ pc = "responded"
  /\ request.name = "git-merge"
  /\ run.before.isRepo
  /\ Len(run.cmds) >= 2
  /\ run.cmds[1].c = "git rev-parse --git-dir"
  /\ run.cmds[2].c = "git rev-parse --verify"
  /\ InFlightAtStart(run.cmds, 2) = {1, 2}

\* ------------------------------------------------------------------ C13
\* C13: every subprocess failure is surfaced: when any git subprocess run
\* for a request failed, the request's result is a failure result; no
\* failure is swallowed or turned into a success result.
C13_EveryFailureSurfaced ==
  pc = "responded" /\ run.failed # <<>> => FailureAnswer

\* git-status in a repository without a remote: git remote get-url origin
\* fails, nothing else does, and the result is a success result.
C13_StatusSwallowsRemoteFailure ==
  /\ Answered("git-status")
  /\ run.before.isRepo /\ ~run.before.hasOrigin
  /\ ~run.faulted
  /\ FailedCommand("git remote get-url origin")
  /\ ~FailureAnswer
  /\ ~run.result.isError

\* ------------------------------------------------------------------ C14
\* The commands that talk to a remote repository.
NetworkCommands == {"git push", "git pull", "git clone"}

\* C14: every git subprocess runs under a timeout, and every network
\* operation (push, pull, clone, and the pull and push steps of flow and
\* sync) runs under a timeout strictly longer than the default.
C14_NetworkTimeoutLonger ==
  \A i \in 1..Len(run.cmds) :
    /\ run.cmds[i].timeout > 0
    /\ run.cmds[i].c \in NetworkCommands => run.cmds[i].timeout > DEFAULT_TIMEOUT

\* git-pull in a repository: git pull was started under the default timeout.
C14_PullUnderDefaultTimeout ==
  /\ Answered("git-pull")
  /\ \E i \in 1..Len(run.cmds) :
       run.cmds[i].c = "git pull" /\ run.cmds[i].timeout = DEFAULT_TIMEOUT

\* ------------------------------------------------------------------ C15
\* C15: when a git subprocess is killed because it exceeded its timeout,
\* the request returns a failure result whose text says the command timed
\* out, not the generic fallback for unrecognized failures.
C15_TimeoutClassified ==
  pc = "responded" /\ (\E i \in 1..Len(run.failed) : run.failed[i].err = "killed")
    => FailureAnswer /\ HasLit(run.result.text, T_ClsTimeout)

\* git-pull whose git pull was killed at the timeout: the result is a
\* failure carrying exec's generic "Command failed" message.
C15_KilledPullGeneric ==
  /\ Answered("git-pull")
  /\ run.failed # <<>>
  /\ LastFailed = "git pull"
  /\ run.failed[Len(run.failed)].err = "killed"
  /\ run.result.isError
  /\ HasLit(run.result.text, T_CmdFailed)
  /\ ~HasLit(run.result.text, T_ClsTimeout)

\* ------------------------------------------------------------------ C16
ConflictCommands == {"git merge", "git rebase", "git rebase -i", "git cherry-pick"}

\* The merge, rebase or cherry-pick subprocess of the request stopped on a
\* conflict.
StoppedOnConflict ==
  \E i \in 1..Len(run.failed) :
    /\ run.cmds[run.failed[i].at].c \in ConflictCommands
    /\ run.failed[i].err \in {"CONFLICT", "stopped"}

\* C16: whenever merge, rebase or cherry-pick stops on a conflict, the
\* result is a failure that lists the conflicted files and prints the
\* resolution instructions.
C16_ConflictListed ==
  pc = "responded" /\ StoppedOnConflict
    => /\ FailureAnswer
       /\ HasLit(run.result.text, T_ConflictFiles)
       /\ HasLit(run.result.text, T_ConflictResolve)

\* git-merge whose git merge stopped on a conflict reported on stdout: no
\* other subprocess failed and the result is the plain "Merge failed" text.
C16_MergeConflictNotListed ==
  /\ Answered("git-merge")
  /\ Len(run.failed) = 1
  /\ LastFailed = "git merge"
  /\ run.failed[1].err = "stopped"
  /\ ~Ran("git diff --name-only --diff-filter=U")
  /\ HasLit(run.result.text, T_MergeFailed)
  /\ ~HasLit(run.result.text, T_ConflictFiles)

\* ------------------------------------------------------------------ C17
\* The directory a request asks for: the one it names, the server's current
\* directory when it names none.
RequestedDirectory ==
  IF Truthy(request.args.directory) THEN request.args.directory ELSE ProcessCwd

\* C17: for every request, every subprocess issued for it (the repository
\* check included) runs in the caller-supplied directory when one is given
\* and in the process's current directory otherwise, and the metadata of the
\* result names that same directory.
C17_RunsInRequestedDirectory ==
  pc = "responded" =>
    /\ \A i \in 1..Len(run.cmds) : run.cmds[i].cwd = RequestedDirectory
    /\ run.reached /\ ~run.thrown
         => run.result.workingDirectory = RequestedDirectory

\* A request naming a directory was answered with a result after a
\* repository check and at least one more subprocess, all run in that
\* directory.
C17_GivenDirectoryUsed ==
  /\ pc = "responded"
  /\ request.args.directory = GivenDir
  /\ run.reached /\ ~run.thrown
  /\ Len(run.cmds) >= 2
  /\ run.cmds[1].c = "git rev-parse --git-dir"
  /\ run.cmds[1].cwd = GivenDir
  /\ run.cmds[2].cwd = GivenDir
  /\ run.result.workingDirectory = GivenDir

\* ------------------------------------------------------------------ C18
\* The alias was run as: greset --<mode> [target], mode a reset mode.
GresetForm(mode) ==
  /\ pc = "exited" /\ alias.name = "greset"
  /\ Len(alias.argv) \in 1..2
  /\ alias.argv[1] = Flag(mode)

GresetTarget == IF Len(alias.argv) = 2 THEN alias.argv[2] ELSE <<"HEAD">>

\* What follows git reset on the command line: --<mode> <target>
ResetLine(mode, target) == <<"--", mode, SP>> \o target

\* C18: for each documented form greset --soft, greset --mixed and
\* greset --hard with an optional target, the git command that finally runs
\* is git reset with exactly that mode and that target.
C18_GresetRunsThatReset ==
  \A mode \in ResetModes :
    GresetForm(mode) =>
      /\ \A i \in 1..Len(run.cmds) :
           run.cmds[i].c = "git reset"
             => run.cmds[i].arg = ResetLine(mode, GresetTarget)
      /\ run.before.isRepo /\ ~run.faulted => Ran("git reset")

\* greset --hard HEAD~1 in a repository: the command that ran is
\* git reset ----hard HEAD~1, and it failed.
C18_GresetHardDoubledDashes ==
  /\ GresetForm("hard")
  /\ GresetTarget = <<"HEAD~1">>
  /\ run.before.isRepo /\ ~run.faulted
  /\ request.args.mode = Flag("hard")
  /\ \E i \in 1..Len(run.cmds) :
       /\ run.cmds[i].c = "git reset"
       /\ run.cmds[i].arg = <<"--", "--hard", SP, "HEAD~1">>
  /\ FailedCommand("git reset")

\* ------------------------------------------------------------------ C19
\* The alias was run in a repository as: gcheckout -b <name>
GcheckoutCreate(name) ==
  /\ pc = "exited" /\ alias.name = "gcheckout"
  /\ alias.argv = << <<"-b">>, name >>
  /\ run.before.isRepo

\* C19: gcheckout -b <name> creates the branch <name> and switches to it:
\* the checkout handler is reached with createNew true for that name.
C19_GcheckoutCreatesBranch ==
  \A name \in {<<"feature">>} :
    GcheckoutCreate(name) =>
      /\ request.name = "git-checkout" /\ run.reached
      /\ request.args.branchName = name
      /\ request.args.createNew

\* gcheckout -b feature in a repository: the handler is reached with
\* createNew false and runs git checkout "feature" without -b.
C19_GcheckoutSwitchesOnly ==
  /\ GcheckoutCreate(<<"feature">>)
  /\ alias.steps # <<>>
  /\ alias.steps[1].argv = << <<"feature">>, <<"true">> >>
  /\ run.reached /\ ~run.faulted
  /\ request.args.branchName = <<"feature">>
  /\ ~request.args.createNew
  /\ \E i \in 1..Len(run.cmds) :
       run.cmds[i].c = "git checkout" /\ run.cmds[i].arg = Quoted(<<"feature">>)
  /\ ~Ran("git checkout -b")

\* ------------------------------------------------------------------ C20
\* The alias gsync was run in a repository and did not stop at its help.
GsyncRun ==
  /\ pc = "exited" /\ alias.name = "gsync" /\ ~alias.help
  /\ run.before.isRepo

\* The i-th client run of the alias had the server start command c.
StepRan(i, c) ==
  \E k \in 1..Len(alias.steps[i].cmds) : alias.steps[i].cmds[k].c = c

StepFailed(i, c) ==
  \E k \in 1..Len(alias.steps[i].failed) :
    alias.steps[i].cmds[alias.steps[i].failed[k].at].c = c

PullSucceededAt(i) == StepRan(i, "git pull") /\ ~StepFailed(i, "git pull")

\* C20: gsync pulls the latest changes and then pushes local commits,
\* attempting the push only after the pull succeeded.
C20_GsyncPullsThenPushes ==
  GsyncRun =>
    /\ \A i \in 1..Len(alias.steps) :
         PullSucceededAt(i)
           => \E j \in i..Len(alias.steps) : StepRan(j, "git push")
    /\ \A j \in 1..Len(alias.steps) :
         StepRan(j, "git push") => \E i \in 1..j : PullSucceededAt(i)

\* gsync in a repository: git pull succeeded, the alias went on to
\* git-status and exited with 0, and no push was attempted.
C20_GsyncNeverPushes ==
  /\ GsyncRun
  /\ Len(alias.steps) = 2
  /\ alias.steps[1].tool = "git-pull" /\ PullSucceededAt(1)
  /\ alias.steps[2].tool = "git-status" /\ StepRan(2, "git status --porcelain")
  /\ ~StepRan(1, "git push") /\ ~StepRan(2, "git push")
  /\ exitCode = 0

\* ------------------------------------------------------------------ C22
\* C22: every exported handler resolves to an operation result for every
\* input and every subprocess outcome: the promise of a handler that was
\* called is never rejected, also when a subprocess fails while a conflict
\* is being reported.
C22_HandlerNeverRejects ==
  pc = "responded" /\ run.reached => ~run.thrown

\* git-cherry-pick whose git cherry-pick failed with CONFLICT in its stderr
\* and whose listing of the conflicted files failed too: the promise is
\* rejected with the error of the listing.
C22_CherryPickListingRejects ==
  /\ Answered("git-cherry-pick")
  /\ Len(run.failed) = 2
  /\ run.cmds[run.failed[1].at].c = "git cherry-pick"
  /\ run.failed[1].err = "CONFLICT"
  /\ LastFailed = "git diff --name-only --diff-filter=U"
  /\ run.thrown

\* ------------------------------------------------------------------ C23
\* The commands that change the repository or the remote, among cmds, in the
\* order they were started.
MutatingCommands == {"git add .", "git commit -m", "git push"}

RECURSIVE MutatingOf(_)
MutatingOf(cmds) ==
  IF cmds = <<>> THEN <<>>
  ELSE (IF Head(cmds).c \in MutatingCommands THEN <<Head(cmds).c>> ELSE <<>>)
         \o MutatingOf(Tail(cmds))

\* The add-all, commit and push handlers called one after another on
\* directory r, stopping at the first that answers a failure: the
\* subprocesses they start and whether the last answer is a failure.
OneAfterAnother(message, r) ==
  LET Stopped(cmds, last) ==
        [cmds |-> cmds, isError |-> last.thrown \/ last.result.isError]
      Failed(h) == h.thrown \/ h.result.isError
      Committed(add, commit) ==
        IF Failed(commit) THEN Stopped(add.st.cmds \o commit.st.cmds, commit)
        ELSE Stopped(add.st.cmds \o commit.st.cmds
                       \o GitPush(commit.st.repo, NoFault).st.cmds,
                     GitPush(commit.st.repo, NoFault))
      Added(add) ==
        IF Failed(add) THEN Stopped(add.st.cmds, add)
        ELSE Committed(add, GitCommit(message, add.st.repo, NoFault))
  IN Added(GitAddAll(r, NoFault))

\* The three calls on the directory and with the message of the request
\* being answered.
FlowAsThreeCalls ==
  OneAfterAnother(request.args.message, WorkingDir(request.args.directory, run.before))

\* C23: git-flow is equivalent to calling the add-all, commit and push
\* handlers one after another with short-circuit on failure: for every
\* repository state, when no subprocess is made to fail by the environment,
\* it starts the same mutating git commands and ends with the same success
\* or failure.
C23_FlowIsAddCommitPush ==
  Answered("git-flow") /\ ~run.faulted /\ ~run.thrown =>
    /\ MutatingOf(run.cmds) = MutatingOf(FlowAsThreeCalls.cmds)
    /\ run.result.isError = FlowAsThreeCalls.isError

\* git-flow with a message in a repository with changes and no origin
\* remote: the workflow fails before it stages anything, the three calls
\* stage and commit and fail at the push.
C23_FlowWithoutOriginStagesNothing ==
  /\ Answered("git-flow") /\ ~run.faulted
  /\ run.before.isRepo /\ ~run.before.hasOrigin /\ StatusCount(run.before) > 0
  /\ Truthy(request.args.message)
  /\ run.result.isError
  /\ MutatingOf(run.cmds) = <<>>
  /\ MutatingOf(FlowAsThreeCalls.cmds) = <<"git add .", "git commit -m">>
  /\ FlowAsThreeCalls.isError

\* ------------------------------------------------------------------ C24
\* The stderr classes holding one of the substrings executeGitCommand
\* classifies.
KnownStderr ==
  {"notrepo", "nothing", "mergeconflict", "auth", "remoterejected",
   "credential", "permission", "hostname"}

\* The classified message of the i-th failed subprocess of the request.
ClassifiedOf(i) == ClassifiedMessage(run.cmds[run.failed[i].at], run.failed[i].err)

\* C24: whenever a git subprocess run by the execution wrapper (every one
\* but the repository probe, which calls exec itself) fails with a stderr
\* containing one of the known substrings, the answer is a failure whose
\* text contains the classified message the wrapper produced for that
\* substring.
C24_ClassifiedMessageReturned ==
  pc = "responded" =>
    \A i \in 1..Len(run.failed) :
      (run.failed[i].err \in KnownStderr
         /\ run.cmds[run.failed[i].at].c # "git rev-parse --git-dir") =>
        /\ FailureAnswer
        /\ \E k \in 1..Len(run.result.text) : run.result.text[k] = ClassifiedOf(i)[1]

\* git-push whose git push failed with "Authentication failed" in stderr:
\* the answer is a failure made of the raw stderr and the push suggestion,
\* without the classified message.
C24_PushAuthFailureRaw ==
  /\ Answered("git-push")
  /\ Len(run.failed) = 1
  /\ LastFailed = "git push"
  /\ run.failed[1].err = "auth"
  /\ run.result.isError
  /\ Includes(run.result.text, "Authentication failed")
  /\ HasLit(run.result.text, T_SugAuth)
  /\ ~HasLit(run.result.text, T_ClsAuth)

\* ------------------------------------------------------------------ C25
\* The i-th subprocess of the request is command c and was waited for.
RanAt(i, c) == run.cmds[i].c = c /\ run.cmds[i].awaited

\* The comparison with the upstream ran, succeeded and listed no commit:
\* the upstream has every commit of the branch.
NoUnpushedCommits ==
  /\ run.before.hasOrigin
  /\ run.before.pushed = Len(run.before.commits)
  /\ \E i \in 1..Len(run.cmds) :
       /\ RanAt(i, "git log @{u}..")
       /\ \A j \in 1..Len(run.failed) : run.failed[j].at # i

\* C25: the push handler never runs git push when no origin remote is
\* configured (it answers a failure) or when the comparison with the
\* upstream shows no unpushed commits (it answers success with the
\* nothing-to-push text); git push runs at most once per request, and only
\* after the remote lookup and the comparison have both run.
C25_PushOnlyAfterChecks ==
  Answered("git-push") =>
    /\ ~run.before.hasOrigin => ~Ran("git push") /\ run.result.isError
    /\ NoUnpushedCommits =>
         /\ ~Ran("git push")
         /\ ~run.result.isError
         /\ HasLit(run.result.text, T_NothingToPush)
    /\ Cardinality({i \in 1..Len(run.cmds) : run.cmds[i].c = "git push"}) <= 1
    /\ \A i \in 1..Len(run.cmds) :
         run.cmds[i].c = "git push" =>
           \E j \in 1..(i - 1) : \E k \in (j + 1)..(i - 1) :
             RanAt(j, "git remote get-url origin") /\ RanAt(k, "git log @{u}..")

\* git-push in a repository whose commits were all pushed before: the
\* comparison lists nothing and no git push is started.
C25_NothingToPushAnswered ==
  /\ Answered("git-push")
  /\ NoUnpushedCommits
  /\ run.before.pushed > 0
  /\ ~Ran("git push")
  /\ HasLit(run.result.text, T_NothingToPush)

\* ------------------------------------------------ the workflow scripts
\* Vocabulary of the claims about a script that has run to its end.
ScriptRan(name) == pc = "exited" /\ job.name = name
JobRan(c) == \E i \in 1..Len(job.cmds) : job.cmds[i].c = c
JobOk(c) == \E i \in 1..Len(job.cmds) : job.cmds[i].c = c /\ job.cmds[i].ok

\* The commands of gclean and gworkflow that change the repository or its
\* remote: delete, prune, gc, checkout, merge, stash, push, backup.
ChangingCommands ==
  {"git branch -d", "git tag -d", "git stash drop", "git remote prune origin",
   "git gc --aggressive --prune=now", "git repack -ad", "git prune",
   "git checkout", "git checkout -b", "git merge --no-ff", "git rebase", "git pull",
   "git stash push -m", "git stash pop", "git commit -m",
   "git commit --amend --no-edit", "git tag -a", "npm version",
   "git push", "git push -u origin", "git push origin --delete",
   "git push origin --tags", "git push --force-with-lease", "gbackup"}

\* C21: whenever --dry-run is among the words of gclean or gworkflow, for
\* every cleanup option and workflow name, the run only previews: no
\* command that changes the repository (delete, prune, gc, checkout, merge,
\* stash, push, backup) is executed.
C21_DryRunOnlyPreviews ==
  (ScriptRan("gclean") \/ ScriptRan("gworkflow"))
    /\ HasWord(job.argv, <<"--dry-run">>) =>
      \A i \in 1..Len(job.cmds) : job.cmds[i].c \notin ChangingCommands

\* gworkflow feature login --dry-run on a clean main: the branch is made
\* and pushed to origin as without the word.
C21_DryRunFeaturePushed ==
  /\ ScriptRan("gworkflow")
  /\ job.argv = << <<"feature">>, <<"login">>, <<"--dry-run">> >>
  /\ job.env = Calm
  /\ FeatureBranch \notin job.before.branches
  /\ JobOk("git checkout -b") /\ JobOk("git push -u origin")
  /\ FeatureBranch \in tree.branches /\ FeatureBranch \in tree.remote
  /\ tree.branch = FeatureBranch

\* C26: gworkflow feature-finish deletes the feature branch, locally and on
\* the remote, only if the merge of that branch into the main branch
\* succeeded.
C26_DeletesOnlyAfterMerge ==
  ScriptRan("gworkflow") /\ job.argv # <<>> /\ job.argv[1] = <<"feature-finish">> =>
    \A i \in 1..Len(job.cmds) :
      job.cmds[i].c \in {"git branch -d", "git push origin --delete"} /\ job.cmds[i].ok =>
        \E j \in 1..(i - 1) : job.cmds[j].c = "git merge --no-ff" /\ job.cmds[j].ok

\* feature-finish on a pushed feature branch where git merge fails: the
\* branch is gone from the clone and from origin, and main never got it.
C26_UnmergedBranchDeleted ==
  /\ ScriptRan("gworkflow")
  /\ job.argv = << <<"feature-finish">> >>
  /\ job.before.branch = FeatureBranch
  /\ FeatureBranch \in job.before.remote
  /\ JobRan("git merge --no-ff") /\ ~JobOk("git merge --no-ff")
  /\ JobOk("git branch -d") /\ JobOk("git push origin --delete")
  /\ FeatureBranch \notin tree.branches /\ FeatureBranch \notin tree.remote
  /\ tree.branch = "main"

\* C27: after the default (smart) gbackup or a branch backup has finished,
\* whether its steps succeeded or failed, the repository is on the branch it
\* started on and the uncommitted changes that were in the working tree
\* before the backup are in the working tree again.
C27_BackupRestoresWorkingTree ==
  ScriptRan("gbackup") /\ (job.argv = <<>> \/ job.argv[1] = <<"--branch">>) =>
    /\ tree.branch = job.before.branch
    /\ tree.changes = job.before.changes

\* gbackup without words on a tree with a changed file, every subprocess
\* succeeding: the change ends in a stash that nothing pops, the working
\* tree is clean.
C27_SmartBackupLeavesChangesStashed ==
  /\ ScriptRan("gbackup")
  /\ job.argv = <<>> /\ job.env = Calm
  /\ job.before.changes = 1
  /\ \A i \in 1..Len(job.cmds) : job.cmds[i].ok
  /\ ~JobRan("git stash pop")
  /\ tree.branch = job.before.branch
  /\ tree.changes = 0
  /\ Len(tree.stashes) = Len(job.before.stashes) + 1
  /\ Head(tree.stashes).changes = 1

\* C28: gclean stash cleanup on a repository with n stashes and keep count
\* k, n greater than k, deletes exactly the n minus k oldest stashes and
\* keeps the k most recent ones (git lists the most recent first).  Read for
\* a run the user confirmed and whose subprocesses all succeeded.
C28_KeepsMostRecentStashes ==
  /\ ScriptRan("gclean")
  /\ job.argv # <<>> /\ job.argv[1] = <<"--stashes">>
  /\ ~HasWord(job.argv, <<"--dry-run">>)
  /\ job.env.yes /\ job.env.at = 0
  /\ Len(job.before.stashes) > KeepCount(job.argv)
  => tree.stashes = SubSeq(job.before.stashes, 1, KeepCount(job.argv))

\* gclean --stashes --keep 1 with two stashes, confirmed: stash@{0}, the
\* most recent one, was dropped and the oldest is the one left.
C28_NewestStashDropped ==
  /\ ScriptRan("gclean")
  /\ job.argv = << <<"--stashes">>, <<"--keep">>, <<"1">> >>
  /\ job.env = Calm
  /\ Len(job.before.stashes) = 2
  /\ job.before.stashes[1].id > job.before.stashes[2].id
  /\ JobOk("git stash drop")
  /\ tree.stashes = <<job.before.stashes[2]>>

\* C29: gsave --wip always goes on to run its add then commit workflow
\* exactly once, whatever the current-branch lookup delivers (no output, one
\* chunk of output, or several chunks).
C29_WipRunsWorkflowOnce ==
  ScriptRan("gsave") /\ HasWord(job.argv, <<"--wip">>) => job.runs = 1

\* gsave --wip where git branch --show-current ends with an error and prints
\* nothing on its stdout: no data event, the workflow is never entered and
\* nothing is added or committed; the script ends with code 0.
C29_WipWithoutOutputSavesNothing ==
  /\ ScriptRan("gsave")
  /\ job.argv = << <<"--wip">> >>
  /\ job.env.at = 1 /\ job.env.err = "fatal"
  /\ job.before.changes = 1
  /\ job.runs = 0
  /\ Len(job.cmds) = 1 /\ job.cmds[1].c = "git branch --show-current"
  /\ ~JobRan("git add .") /\ ~JobRan("git commit -m")
  /\ tree.changes = 1
  /\ exitCode = 0

\* C30: in the default gdev session the three steps run strictly one after
\* another: git status has completed before git pull starts, and the branch
\* listing starts only after git pull has ended, so no two git subprocesses
\* are in flight at the same time.
C30_SessionStepsOneAtATime ==
  ScriptRan("gdev") /\ job.argv = <<>> =>
    \A i \in 1..Len(job.cmds) : job.cmds[i].alone

\* The default session where git status takes longer than the one second of
\* the timer: git pull is started while git status is still running; the
\* branch listing does wait for git pull.
C30_PullStartedDuringStatus ==
  /\ ScriptRan("gdev")
  /\ job.argv = <<>>
  /\ job.env.slow /\ job.env.at = 0
  /\ Len(job.cmds) = 3
  /\ job.cmds[1].c = "git status --short" /\ job.cmds[1].alone
  /\ job.cmds[2].c = "git pull" /\ ~job.cmds[2].alone
  /\ job.cmds[3].c = "git branch -a" /\ job.cmds[3].alone

====
